---------------------------- MODULE Spec2Model ----------------------------
(***************************************************************************)
(* A model of stubble (src/stubble.ts): the parser that turns a token      *)
(* stream into a recipe tree, the built-in helpers each / if / with, the   *)
(* renderer and resolvePath.                                               *)
(*                                                                         *)
(* JavaScript values are tagged records (field k names the type); strings  *)
(* are TLA+ strings; arrays are sequences; array indices are kept 0-based  *)
(* where the source keeps one (ParseState.index).                          *)
(***************************************************************************)
EXTENDS Integers, Sequences, FiniteSets, TLC

VARIABLES
    helpers,    \* Template.helpers: registered name -> helper
    tokens,     \* the token stream handed to tokensToRecipes by the constructor
    stack,      \* the ParseState objects of the running tokensToRecipes calls
    status,     \* "parsing" | "compiled" | "failed" (the constructor threw)
    error,      \* the name of the error the constructor threw, or "none"
    recipes,    \* Template.recipes, set when the constructor returns
    dom,        \* the document: every node that exists, by id
    renders,    \* the render calls made so far, in order, with what each returned
    rp,         \* a call of resolvePath: its arguments, its loop and its outcome
    source,     \* the nodes parseDOM made of the template string, if it has one
    helperEntries, \* Template.helpers of src/unnamed/part_000: the list of entries
    regCall,    \* the last call of registerHelper or findHelper, with its result
    collect     \* a call of collectBlock: the stream it shifts, its loop, its result

vars == <<helpers, tokens, stack, status, error, recipes, dom, renders, rp,
          source, helperEntries, regCall, collect>>

-----------------------------------------------------------------------------
(* Bounds *)

\* The longest token stream drawn from the whole alphabet
MaxTokens == 3

\* The longest path resolvePath is called with on its own
MaxPath == 3

\* The most render calls made on one compiled template
MaxRenders == 2

\* The most pieces (literal characters and placeholders) of a template text
MaxPieces == 3

\* The most helpers registered after the built-in ones
MaxRegistrations == 3

\* The most helpers assigned to Template.helpers around one compilation
MaxAssignments == 2

\* The longest token stream collectBlock is called with
MaxStream == 5

-----------------------------------------------------------------------------
(* Tokens: src/stubble.ts 165-233 *)

TextToken(text) == [type |-> "Text", text |-> text]

FieldToken(path) == [type |-> "Field", path |-> path]

BlockStartToken(name, path) == [type |-> "BlockStart", name |-> name, path |-> path]

BlockEndToken(name) == [type |-> "BlockEnd", name |-> name]

NodeToken(nodeName, attributes, childTokens) ==
    [type |-> "Node", nodeName |-> nodeName, attributes |-> attributes,
     childTokens |-> childTokens]

-----------------------------------------------------------------------------
(* Recipes: src/stubble.ts 125-159, 318-392 *)

TextRecipe(text) == [kind |-> "Text", text |-> text]

FieldRecipe(token) == [kind |-> "Field", path |-> token.path]

NodeRecipe(token, childRecipes) ==
    [kind |-> "Node", nodeName |-> token.nodeName, attributes |-> token.attributes,
     childRecipes |-> childRecipes]

\* The fields BlockRecipe's constructor sets before it looks the helper up.
\* currentBranch is a reference to one of the two branch arrays: "default" or "else".
NewBlockRecipe(block, helper) ==
    [kind |-> "Block", name |-> block.name, path |-> block.path,
     defaultBranch |-> <<>>, elseBranch |-> <<>>, currentBranch |-> "default",
     helper |-> helper]

IsElse(recipe) ==
    /\ recipe.kind = "Field"
    /\ Len(recipe.path) = 1
    /\ recipe.path[1] = "else"

\* BlockRecipe.pushRecipe with an else that switches to the other branch,
\* whichever is active
BlockPushRecipeToggle(block, recipe) ==
    IF IsElse(recipe)
    THEN [block EXCEPT !.currentBranch = IF @ = "default" THEN "else" ELSE "default"]
    ELSE IF block.currentBranch = "default"
         THEN [block EXCEPT !.defaultBranch = Append(@, recipe)]
         ELSE [block EXCEPT !.elseBranch = Append(@, recipe)]

\* BlockRecipe.pushRecipe
BlockPushRecipe(block, recipe) ==
    IF IsElse(recipe)
    THEN [block EXCEPT !.currentBranch = "else"]
    ELSE IF block.currentBranch = "default"
         THEN [block EXCEPT !.defaultBranch = Append(@, recipe)]
         ELSE [block EXCEPT !.elseBranch = Append(@, recipe)]

-----------------------------------------------------------------------------
(* ParseState: src/stubble.ts 244-313 *)

NewParseState(toks) ==
    [index |-> 0, tokens |-> toks, recipes |-> <<>>, length |-> Len(toks),
     blockState |-> <<>>]

atEndOfStream(ps) == ps.index >= ps.length

\* nextToken returns tokens[index++]: the token, and the state with index advanced.
PeekToken(ps) == ps.tokens[ps.index + 1]

\* A nextToken that leaves the index where it is
AdvanceNot(ps) == ps

Advance(ps) == [ps EXCEPT !.index = @ + 1]

\* ParseState.pushRecipe handing the recipe to the outermost open block
PushRecipeOutermost(ps, recipe) ==
    IF Len(ps.blockState) # 0
    THEN [ps EXCEPT !.blockState[1] = BlockPushRecipe(@, recipe)]
    ELSE [ps EXCEPT !.recipes = Append(@, recipe)]

\* ParseState.pushRecipe taking an else for a marker where no block is open too
PushRecipeElseSkipped(ps, recipe) ==
    LET length == Len(ps.blockState) IN
    IF length # 0
    THEN [ps EXCEPT !.blockState[length] = BlockPushRecipe(@, recipe)]
    ELSE IF IsElse(recipe) THEN ps
         ELSE [ps EXCEPT !.recipes = Append(@, recipe)]

\* ParseState.pushRecipe
PushRecipe(ps, recipe) ==
    LET length == Len(ps.blockState) IN
    IF length # 0
    THEN [ps EXCEPT !.blockState[length] = BlockPushRecipe(@, recipe)]
    ELSE [ps EXCEPT !.recipes = Append(@, recipe)]

-----------------------------------------------------------------------------
(* squashTextRecipes / optimizeRecipes: src/stubble.ts 427-455 *)

\* The loop of squashTextRecipes from position i on; optimized is the output
\* list so far and last is lastTextRecipe (a sequence of length 0 or 1: null or
\* the text recipe being accumulated).
RECURSIVE SquashFrom(_, _, _, _)
SquashFrom(rs, i, optimized, last) ==
    IF i > Len(rs) THEN optimized
    ELSE LET recipe == rs[i] IN
         IF last # <<>>
         THEN IF recipe.kind = "Text"
              THEN SquashFrom(rs, i + 1, optimized,
                              <<[last[1] EXCEPT !.text = @ \o recipe.text]>>)
              ELSE SquashFrom(rs, i + 1, optimized \o last \o <<recipe>>, <<>>)
         ELSE IF recipe.kind = "Text"
              THEN SquashFrom(rs, i + 1, optimized, <<recipe>>)
              ELSE SquashFrom(rs, i + 1, Append(optimized, recipe), <<>>)

squashTextRecipes(rs) == SquashFrom(rs, 1, <<>>, <<>>)

optimizeRecipes(rs) == squashTextRecipes(rs)

-----------------------------------------------------------------------------
(* JavaScript values of a render context.  A string value is the sequence   *)
(* of its characters; an object is a function from its own keys to values;  *)
(* a DOM node is named by its id in the document (see dom below).  Only own *)
(* data properties and length are modelled, not inherited methods.          *)

Undefined == [k |-> "undefined"]

Null == [k |-> "null"]

Bool(b) == [k |-> "boolean", b |-> b]

Num(n) == [k |-> "number", n |-> n]

Str(chars) == [k |-> "string", chars |-> chars]

Arr(elems) == [k |-> "array", elems |-> elems]

Obj(props) == [k |-> "object", props |-> props]

NodeVal(id) == [k |-> "node", id |-> id]

JQuery(ids) == [k |-> "jquery", ids |-> ids]

\* A reference to an object of the heap: the value of an object or array that
\* is reached from itself
Ref(id) == [k |-> "ref", id |-> id]

\* The objects that contain themselves: o with o.x = o and o.y = 'o', and the
\* array a = [a, {y: true}]
Heap ==
    <<Obj([x |-> Ref(1), y |-> Str(<<"o">>)]),
      Arr(<<Ref(2), Obj([y |-> Bool(TRUE)])>>)>>

\* The exception a property read on null or undefined raises, as a value.
TypeError == [k |-> "TypeError"]

IsNullish(v) == v.k \in {"undefined", "null"}

\* JavaScript's ToBoolean
Truthy(v) ==
    CASE v.k \in {"undefined", "null"} -> FALSE
      [] v.k = "boolean" -> v.b
      [] v.k = "number"  -> v.n # 0
      [] v.k = "string"  -> v.chars # <<>>
      [] OTHER           -> TRUE

\* data[piece]
RECURSIVE Prop(_, _)
Prop(data, piece) ==
    CASE data.k \in {"undefined", "null"} -> TypeError
      [] data.k = "TypeError" -> TypeError
      [] data.k = "object" ->
            IF piece \in DOMAIN data.props THEN data.props[piece] ELSE Undefined
      [] data.k = "array" ->
            IF piece = "length" THEN Num(Len(data.elems)) ELSE Undefined
      [] data.k = "string" ->
            IF piece = "length" THEN Num(Len(data.chars)) ELSE Undefined
      [] data.k = "jquery" ->
            IF piece = "length" THEN Num(Len(data.ids)) ELSE Undefined
      [] data.k = "ref" -> Prop(Heap[data.id], piece)
      [] OTHER -> Undefined

\* The elements a for-of loop over the collection visits, in order.
RECURSIVE Elements(_)
Elements(collection) ==
    CASE collection.k = "array"  -> collection.elems
      [] collection.k = "string" ->
            [i \in 1..Len(collection.chars) |-> Str(<<collection.chars[i]>>)]
      [] collection.k = "jquery" ->
            [i \in 1..Len(collection.ids) |-> NodeVal(collection.ids[i])]
      [] collection.k = "ref" -> Elements(Heap[collection.id])
      [] OTHER -> <<>>

Digit(d) == CASE d = 0 -> "0" [] d = 1 -> "1" [] d = 2 -> "2" [] d = 3 -> "3"
              [] d = 4 -> "4" [] d = 5 -> "5" [] d = 6 -> "6" [] d = 7 -> "7"
              [] d = 8 -> "8" [] d = 9 -> "9"

\* The decimal digits of a natural number
RECURSIVE Decimal(_)
Decimal(n) == IF n < 10 THEN <<Digit(n)>> ELSE Append(Decimal(n \div 10), Digit(n % 10))

\* An element of an array being joined that is an array being joined itself:
\* the arrays of the heap hold no array but themselves
Cyclic(elem) == elem.k = "ref" /\ Heap[elem.id].k = "array"

\* The characters of value.toString(), for a value neither null nor undefined.
\* Array.prototype.join gives the empty string for an element that is null,
\* undefined or, in the engines, an array whose join is under way.
RECURSIVE toStringChars(_)
RECURSIVE JoinElems(_)
JoinElems(elems) ==
    IF elems = <<>> THEN <<>>
    ELSE (IF IsNullish(elems[1]) \/ Cyclic(elems[1]) THEN <<>>
          ELSE toStringChars(elems[1]))
         \o (IF Len(elems) > 1 THEN <<",">> \o JoinElems(Tail(elems)) ELSE <<>>)

toStringChars(v) ==
    CASE v.k = "boolean" -> IF v.b THEN <<"t", "r", "u", "e">>
                            ELSE <<"f", "a", "l", "s", "e">>
      [] v.k = "number"  -> IF v.n < 0 THEN <<"-">> \o Decimal(0 - v.n) ELSE Decimal(v.n)
      [] v.k = "string"  -> v.chars
      [] v.k = "array"   -> JoinElems(v.elems)
      [] Cyclic(v)       -> JoinElems(Heap[v.id].elems)
      [] OTHER           -> <<"[", "o", "b", "j", "e", "c", "t", " ",
                              "O", "b", "j", "e", "c", "t", "]">>

\* A sequence of characters as one string
RECURSIVE JoinChars(_)
JoinChars(chars) ==
    IF chars = <<>> THEN "" ELSE chars[1] \o JoinChars(Tail(chars))

toString(v) == JoinChars(toStringChars(v))

-----------------------------------------------------------------------------
(* resolvePath and hasLength: src/stubble.ts 457-481 *)

\* The condition of resolvePath without its test of data
ReadsPropertyUnguarded(piece, data) == piece # "this"

\* The condition under which an iteration of resolvePath reads a property.
ReadsProperty(piece, data) == piece # "this" /\ Truthy(data)

\* One iteration of the loop of resolvePath.
ResolvePiece(piece, data) ==
    IF ReadsProperty(piece, data) THEN Prop(data, piece) ELSE data

RECURSIVE ResolveFrom(_, _, _)
ResolveFrom(path, i, data) ==
    IF i > Len(path) THEN data
    ELSE ResolveFrom(path, i + 1, ResolvePiece(path[i], data))

resolvePath(path, data) == ResolveFrom(path, 1, data)

\* A test that takes every defined length, zero too, for a length
hasLengthDefined(x) == ~IsNullish(x) /\ Prop(x, "length") # Undefined

\* x && x.length, as a condition
hasLength(x) == Truthy(x) /\ Truthy(Prop(x, "length"))

-----------------------------------------------------------------------------
(* NodeRecipe.replacePlaceholders: src/stubble.ts 356, 381-391.  An         *)
(* attribute value is the sequence of its characters.                      *)

\* /{{(.+?)}}/ matches with {{ at i and }} at j: at least one character lies
\* between them and none of them ends a line.
MatchesAt(chars, i, j) ==
    /\ i >= 1 /\ j >= i + 3 /\ j + 1 <= Len(chars)
    /\ chars[i] = "{" /\ chars[i + 1] = "{"
    /\ chars[j] = "}" /\ chars[j + 1] = "}"
    /\ \A m \in (i + 2)..(j - 1) : chars[m] # "\n"

Least(S) == CHOOSE n \in S : \A m \in S : n <= m

\* path.split('.')
RECURSIVE SplitDots(_, _)
SplitDots(chars, piece) ==
    IF chars = <<>> THEN <<JoinChars(piece)>>
    ELSE IF chars[1] = "." THEN <<JoinChars(piece)>> \o SplitDots(Tail(chars), <<>>)
    ELSE SplitDots(Tail(chars), Append(piece, chars[1]))

\* String.replace with a regular expression without the g flag: the leftmost
\* match, the shortest from there, is replaced and no other.  The result is
\* the string returned (value) and the error raised on the way, if any.
replacePlaceholders(template, data) ==
    LET starts == {i \in 1..Len(template) :
                      \E j \in 1..Len(template) : MatchesAt(template, i, j)}
    IN  IF starts = {} THEN [error |-> "none", value |-> template]
        ELSE LET i == Least(starts)
                 j == Least({n \in 1..Len(template) : MatchesAt(template, i, n)})
                 pieces == SplitDots(SubSeq(template, i + 2, j - 1), <<>>)
                 value  == resolvePath(pieces, data)
             IN  IF value.k = "TypeError"
                 THEN [error |-> "TypeError", value |-> <<>>]
                 ELSE [error |-> "none",
                       value |-> SubSeq(template, 1, i - 1)
                                 \o (IF ~IsNullish(value) THEN toStringChars(value)
                                     ELSE <<>>)
                                 \o SubSeq(template, j + 2, Len(template))]

-----------------------------------------------------------------------------
(* The document: the nodes that exist, by id (their position in the         *)
(* sequence).  parentNode 0 is null.                                        *)

ElementNode(nodeName) ==
    [nodeType |-> "element", nodeName |-> nodeName, text |-> "",
     attributes |-> <<>>, childNodes |-> <<>>, parentNode |-> 0]

TextNode(text) ==
    [nodeType |-> "text", nodeName |-> "#text", text |-> text,
     attributes |-> <<>>, childNodes |-> <<>>, parentNode |-> 0]

\* element.setAttribute(name, value) on the attributes of the element
setAttribute(attributes, name, value) ==
    IF \E i \in 1..Len(attributes) : attributes[i].name = name
    THEN [i \in 1..Len(attributes) |->
             IF attributes[i].name = name THEN [name |-> name, value |-> value]
             ELSE attributes[i]]
    ELSE Append(attributes, [name |-> name, value |-> value])

Without(seq, x) == SelectSeq(seq, LAMBDA y : y # x)

\* An appendChild that leaves the child in the child list of its former parent
appendChildKeeping(nodes, target, child) ==
    [nodes EXCEPT ![target].childNodes = Append(@, child),
                  ![child].parentNode = target]

\* target.appendChild(child): the child leaves its former parent, if any.
appendChild(nodes, target, child) ==
    LET old      == nodes[child].parentNode
        detached == IF old = 0 THEN nodes
                    ELSE [nodes EXCEPT ![old].childNodes = Without(@, child)]
    IN  [detached EXCEPT ![target].childNodes = Append(@, child),
                         ![child].parentNode = target]

RECURSIVE AppendAll(_, _, _, _)
AppendAll(nodes, target, ids, i) ==
    IF i > Len(ids) THEN nodes
    ELSE AppendAll(appendChild(nodes, target, ids[i]), target, ids, i + 1)

\* The text of a node and its descendants, in document order.
RECURSIVE textContent(_, _)
RECURSIVE TextOfAll(_, _, _)
TextOfAll(nodes, ids, i) ==
    IF i > Len(ids) THEN ""
    ELSE textContent(nodes, ids[i]) \o TextOfAll(nodes, ids, i + 1)

textContent(nodes, id) ==
    IF nodes[id].nodeType = "text" THEN nodes[id].text
    ELSE TextOfAll(nodes, nodes[id].childNodes, 1)

-----------------------------------------------------------------------------
(* Rendering: src/stubble.ts 21-86, 156-158, 324-379.                       *)
(* A render state rs holds the document (nodes), the error thrown so far    *)
(* (err), and the record of the renderInto calls made (calls), each with    *)
(* the depth of the call: a call made by a call of depth d has depth d + 1. *)

NewRenderState(nodes) == [nodes |-> nodes, err |-> "none", calls |-> <<>>, depth |-> 0]

Enter(rs, recipe, target, data) ==
    [rs EXCEPT !.calls = Append(@, [recipe |-> recipe, target |-> target,
                                   data |-> data, depth |-> rs.depth + 1]),
               !.depth = @ + 1]

Leave(rs) == [rs EXCEPT !.depth = @ - 1]

Raise(rs, name) == [rs EXCEPT !.err = name]

\* document.createTextNode(text) followed by target.appendChild of it
AppendText(rs, target, text) ==
    LET created == Append(rs.nodes, TextNode(text))
    IN  [rs EXCEPT !.nodes = appendChild(created, target, Len(created))]

\* TextRecipe.renderInto
TextRenderInto(recipe, target, data, rs) == AppendText(rs, target, recipe.text)

\* A Field recipe that makes a text of whatever is not null or undefined
FieldRenderIntoText(recipe, target, data, rs) ==
    LET value == resolvePath(recipe.path, data) IN
    CASE value.k = "TypeError" -> Raise(rs, "TypeError")
      [] IsNullish(value)      -> rs
      [] OTHER                 -> AppendText(rs, target, toString(value))

\* FieldRecipe.renderInto
FieldRenderInto(recipe, target, data, rs) ==
    LET value == resolvePath(recipe.path, data) IN
    CASE value.k = "TypeError" -> Raise(rs, "TypeError")
      [] value.k = "node"      -> [rs EXCEPT !.nodes = appendChild(@, target, value.id)]
      [] value.k = "jquery"    -> [rs EXCEPT !.nodes = AppendAll(@, target, value.ids, 1)]
      [] IsNullish(value)      -> rs
      [] OTHER                 -> AppendText(rs, target, toString(value))

RECURSIVE RenderInto(_, _, _, _)
RECURSIVE RenderAll(_, _, _, _, _)
RECURSIVE EachItem(_, _, _, _, _)

\* for (let recipe of list) recipe.renderInto(target, data), from position i
RenderAll(list, i, target, data, rs) ==
    IF i > Len(list) \/ rs.err # "none" THEN rs
    ELSE RenderAll(list, i + 1, target, data, RenderInto(list[i], target, data, rs))

\* for (let item of collection) { the default branch }, from item i
EachItem(items, i, block, target, rs) ==
    IF i > Len(items) \/ rs.err # "none" THEN rs
    ELSE EachItem(items, i + 1, block, target,
                  RenderAll(block.defaultBranch, 1, target, items[i], rs))

\* each starting its loop at the second item
eachHelperFromSecond(target, data, block, rs) ==
    LET collection == resolvePath(block.path, data) IN
    IF collection.k = "TypeError" THEN Raise(rs, "TypeError")
    ELSE IF hasLength(collection)
         THEN EachItem(Elements(collection), 2, block, target, rs)
         ELSE RenderAll(block.elseBranch, 1, target, data, rs)

\* Template.helpers['each'].renderInto
eachHelper(target, data, block, rs) ==
    LET collection == resolvePath(block.path, data) IN
    IF collection.k = "TypeError" THEN Raise(rs, "TypeError")
    ELSE IF hasLength(collection)
         THEN EachItem(Elements(collection), 1, block, target, rs)
         ELSE RenderAll(block.elseBranch, 1, target, data, rs)

\* if handing the tested value to its default branch, as with does
ifHelperAsWith(target, data, block, rs) ==
    LET result == resolvePath(block.path, data) IN
    IF result.k = "TypeError" THEN Raise(rs, "TypeError")
    ELSE IF Truthy(result)
         THEN RenderAll(block.defaultBranch, 1, target, result, rs)
         ELSE RenderAll(block.elseBranch, 1, target, data, rs)

\* Template.helpers['if'].renderInto
ifHelper(target, data, block, rs) ==
    LET result == resolvePath(block.path, data)
        branch == IF ~Truthy(result) THEN block.elseBranch ELSE block.defaultBranch
    IN  IF result.k = "TypeError" THEN Raise(rs, "TypeError")
        ELSE RenderAll(branch, 1, target, data, rs)

\* with handing the tested value to its else branch too
withHelperResultInElse(target, data, block, rs) ==
    LET result == resolvePath(block.path, data)
        branch == IF Truthy(result) THEN block.defaultBranch ELSE block.elseBranch
    IN  IF result.k = "TypeError" THEN Raise(rs, "TypeError")
        ELSE RenderAll(branch, 1, target, result, rs)

\* Template.helpers['with'].renderInto
withHelper(target, data, block, rs) ==
    LET result == resolvePath(block.path, data) IN
    IF result.k = "TypeError" THEN Raise(rs, "TypeError")
    ELSE IF Truthy(result)
         THEN RenderAll(block.defaultBranch, 1, target, result, rs)
         ELSE RenderAll(block.elseBranch, 1, target, data, rs)

\* A Block recipe that looks its helper up under its name when it is rendered
BlockRenderIntoByName(recipe, target, data, rs) ==
    LET helper == IF recipe.name \in DOMAIN helpers THEN helpers[recipe.name]
                  ELSE "undefined"
    IN  CASE helper = "each" -> eachHelper(target, data, recipe, rs)
          [] helper = "if"   -> ifHelper(target, data, recipe, rs)
          [] helper = "with" -> withHelper(target, data, recipe, rs)
          [] OTHER           -> Raise(rs, "TypeError")

\* BlockRecipe.renderInto: this.helper.renderInto(target, data, this); a helper
\* that is undefined has no renderInto to call.
BlockRenderInto(recipe, target, data, rs) ==
    CASE recipe.helper = "each" -> eachHelper(target, data, recipe, rs)
      [] recipe.helper = "if"   -> ifHelper(target, data, recipe, rs)
      [] recipe.helper = "with" -> withHelper(target, data, recipe, rs)
      [] OTHER                  -> Raise(rs, "TypeError")

\* for (let attr of this.attributes) element.setAttribute(attr.name, value),
\* from attribute i on
RECURSIVE SetAttributes(_, _, _, _, _)
SetAttributes(attributes, i, element, data, rs) ==
    IF i > Len(attributes) \/ rs.err # "none" THEN rs
    ELSE LET replaced == replacePlaceholders(attributes[i].value, data) IN
         SetAttributes(attributes, i + 1, element, data,
             IF replaced.error # "none" THEN Raise(rs, replaced.error)
             ELSE [rs EXCEPT !.nodes[element].attributes =
                       setAttribute(@, attributes[i].name, replaced.value)])

\* A Node recipe that keeps one element per tag name and fills it again
NodeRenderIntoShared(recipe, target, data, rs) ==
    LET made     == {id \in DOMAIN rs.nodes :
                        /\ rs.nodes[id].nodeType = "element"
                        /\ rs.nodes[id].nodeName = recipe.nodeName}
        created  == IF made = {}
                    THEN [rs EXCEPT !.nodes = Append(@, ElementNode(recipe.nodeName))]
                    ELSE rs
        element  == IF made = {} THEN Len(created.nodes) ELSE CHOOSE id \in made : TRUE
        named    == SetAttributes(recipe.attributes, 1, element, data, created)
        filled   == RenderAll(recipe.childRecipes, 1, element, data, named)
    IN  IF filled.err # "none" \/ element = target THEN filled
        ELSE [filled EXCEPT !.nodes = appendChild(@, target, element)]

\* NodeRecipe.renderInto: a new element, its attributes set, its children
\* rendered into it, and the element appended to the target last.
NodeRenderInto(recipe, target, data, rs) ==
    LET created  == [rs EXCEPT !.nodes = Append(@, ElementNode(recipe.nodeName))]
        element  == Len(created.nodes)
        named    == SetAttributes(recipe.attributes, 1, element, data, created)
        filled   == RenderAll(recipe.childRecipes, 1, element, data, named)
    IN  IF filled.err # "none" THEN filled
        ELSE [filled EXCEPT !.nodes = appendChild(@, target, element)]

\* recipe.renderInto(target, data), by the class of the recipe
RenderInto(recipe, target, data, rs) ==
    LET entered == Enter(rs, recipe, target, data) IN
    Leave(CASE recipe.kind = "Text"  -> TextRenderInto(recipe, target, data, entered)
            [] recipe.kind = "Field" -> FieldRenderInto(recipe, target, data, entered)
            [] recipe.kind = "Node"  -> NodeRenderInto(recipe, target, data, entered)
            [] recipe.kind = "Block" -> BlockRenderInto(recipe, target, data, entered))

\* Template.render up to the return: a new div and every recipe rendered into it.
renderTemplate(list, data, nodes) ==
    LET created == Append(nodes, ElementNode("DIV"))
        target  == Len(created)
    IN  [target |-> target,
         rs |-> RenderAll(list, 1, target, data, NewRenderState(created))]

-----------------------------------------------------------------------------
(* The tokenizer: src/stubble.ts 165-233, 421, 483-537.  A text is the      *)
(* sequence of its characters; positions are 1-based and lastIndex, as in   *)
(* the source, is the number of characters before the position.            *)

\* No character of chars[a..b] ends a line: . matches each of them
NoNewline(chars, a, b) == \A m \in a..b : chars[m] # "\n"

\* The positions p at which (.*?){{(.+?)}} started at s finds its {{
PlaceholderStarts(chars, s) ==
    {p \in s..Len(chars) :
        NoNewline(chars, s, p - 1) /\ \E j \in 1..Len(chars) : MatchesAt(chars, p, j)}

\* The last position of the match of (.+) started at s
RunEnd(chars, s) ==
    CHOOSE e \in s..Len(chars) :
        /\ NoNewline(chars, s, e)
        /\ e < Len(chars) => chars[e + 1] = "\n"

\* PLACEHOLDER_RX matches when started at position s
MatchesFrom(chars, s) == PlaceholderStarts(chars, s) # {} \/ chars[s] # "\n"

\* PLACEHOLDER_RX.exec(text) with the given lastIndex: the groups 1, 2, 3 of
\* the match (a group that is not set is the empty sequence) and the new
\* lastIndex, or no match and lastIndex 0.  The first alternative is tried
\* first at every position, with the shortest (.*?) and then the shortest (.+?).
exec(chars, lastIndex) ==
    LET found == {s \in (lastIndex + 1)..Len(chars) : MatchesFrom(chars, s)} IN
    IF found = {}
    THEN [matched |-> FALSE, g1 |-> <<>>, g2 |-> <<>>, g3 |-> <<>>, lastIndex |-> 0]
    ELSE LET s == Least(found) IN
         IF PlaceholderStarts(chars, s) # {}
         THEN LET p == Least(PlaceholderStarts(chars, s))
                  j == Least({n \in 1..Len(chars) : MatchesAt(chars, p, n)})
              IN  [matched |-> TRUE, g1 |-> SubSeq(chars, s, p - 1),
                   g2 |-> SubSeq(chars, p + 2, j - 1), g3 |-> <<>>,
                   lastIndex |-> j + 1]
         ELSE [matched |-> TRUE, g1 |-> <<>>, g2 |-> <<>>,
               g3 |-> SubSeq(chars, s, RunEnd(chars, s)),
               lastIndex |-> RunEnd(chars, s)]

\* text.split(separator), as the sequence of the pieces
RECURSIVE SplitChars(_, _, _)
SplitChars(chars, separator, piece) ==
    IF chars = <<>> THEN <<piece>>
    ELSE IF chars[1] = separator
         THEN <<piece>> \o SplitChars(Tail(chars), separator, <<>>)
         ELSE SplitChars(Tail(chars), separator, Append(piece, chars[1]))

\* new FieldToken(text)
NewFieldToken(text) == FieldToken(SplitDots(text, <<>>))

\* new BlockEndToken(text)
NewBlockEndToken(text) == BlockEndToken(JoinChars(Tail(text)))

\* new BlockStartToken(text): split[1] || '' is the second piece, or the empty
\* string when there is none
NewBlockStartToken(text) ==
    LET split == SplitChars(text, " ", <<>>) IN
    BlockStartToken(JoinChars(Tail(split[1])),
                    SplitDots(IF Len(split) >= 2 THEN split[2] ELSE <<>>, <<>>))

parsePlaceholderToken(text) ==
    CASE text[1] = "#" -> NewBlockStartToken(text)
      [] text[1] = "/" -> NewBlockEndToken(text)
      [] OTHER         -> NewFieldToken(text)

\* The loop of parseTextTokens
RECURSIVE ExecLoop(_, _, _)
ExecLoop(text, lastIndex, toks) ==
    LET result == exec(text, lastIndex) IN
    IF ~result.matched THEN toks
    ELSE IF result.g3 # <<>>
         THEN ExecLoop(text, result.lastIndex,
                       Append(toks, TextToken(JoinChars(result.g3))))
         ELSE ExecLoop(text, result.lastIndex,
                       toks \o <<TextToken(JoinChars(result.g1)),
                                 parsePlaceholderToken(result.g2)>>)

parseTextTokens(text) == ExecLoop(text, 0, <<>>)

\* The nodes parseDOM returns: text nodes and elements
SourceText(text) == [nodeType |-> "text", textContent |-> text]

SourceElement(nodeName, attributes, childNodes) ==
    [nodeType |-> "element", nodeName |-> nodeName, attributes |-> attributes,
     childNodes |-> childNodes]

\* nodesToTokens, with new NodeToken(node) for an element
RECURSIVE nodesToTokens(_)
nodesToTokens(nodes) ==
    IF nodes = <<>> THEN <<>>
    ELSE (CASE nodes[1].nodeType = "text" -> parseTextTokens(nodes[1].textContent)
            [] nodes[1].nodeType = "element" ->
                  <<NodeToken(nodes[1].nodeName, nodes[1].attributes,
                              nodesToTokens(nodes[1].childNodes))>>
            [] OTHER -> <<>>)
         \o nodesToTokens(Tail(nodes))

-----------------------------------------------------------------------------
(* collectBlock of the token-stream variant: src/unnamed/part_000 203-231   *)
(* (the constructor of Block, src/unnamed/part_001 270-305, is the same     *)
(* loop).  A token of that variant is a text or a field; the field of a     *)
(* field token is the sequence of its characters.                           *)

StreamText(text) == [type |-> "text", text |-> text]

StreamField(field) == [type |-> "field", field |-> field]

isField(token) == token.type = "field"

ElseField == <<"e", "l", "s", "e">>

\* An else that switches the branch whatever the depth
SwitchesBranchAtAnyDepth(token, depth) == token.field = ElseField

\* token.field === 'else' && depth === 1
SwitchesBranch(token, depth) == token.field = ElseField /\ depth = 1

\* The call as collectBlock is entered: the helper has shifted the start
\* marker off the stream
NewCollect(toks) ==
    [state |-> "loop", input |-> toks, tokens |-> toks, depth |-> 1,
     block |-> "first", first |-> <<>>, second |-> <<>>]

\* block.push(token)
BlockPush(c, token) ==
    IF c.block = "first" THEN [c EXCEPT !.first = Append(@, token)]
    ELSE [c EXCEPT !.second = Append(@, token)]

\* One iteration of the loop of collectBlock, on the call after the shift
CollectToken(c, token) ==
    IF isField(token) /\ token.field[1] = "/"
    THEN IF c.depth - 1 = 0
         THEN [c EXCEPT !.depth = 0, !.state = "broke"]
         ELSE BlockPush([c EXCEPT !.depth = @ - 1], token)
    ELSE IF isField(token) /\ token.field[1] = "#"
         THEN BlockPush([c EXCEPT !.depth = @ + 1], token)
    ELSE IF isField(token) /\ SwitchesBranch(token, c.depth)
         THEN [c EXCEPT !.block = "second"]
    ELSE BlockPush(c, token)

-----------------------------------------------------------------------------
(* The inputs: the helper table, the token streams and the render contexts. *)

\* Template.helpers after the module has loaded: src/stubble.ts 35, 55, 73
BuiltinHelpers == [n \in {"each", "if", "with"} |-> n]

HelperNames == DOMAIN BuiltinHelpers

\* "foo" is a name no helper is registered under.
BlockNames == HelperNames \cup {"foo"}

LeafTokens ==
    {TextToken("A"), FieldToken(<<"else">>), FieldToken(<<"y">>)}
    \cup {BlockStartToken(n, <<"x">>) : n \in BlockNames}
    \cup {BlockEndToken(n) : n \in HelperNames}

ChildStreams ==
    {<<>>} \cup {<<t>> : t \in {TextToken("A"), FieldToken(<<"else">>),
                                BlockStartToken("if", <<"x">>)}}

Alphabet == LeafTokens \cup {NodeToken("P", <<>>, c) : c \in ChildStreams}

SeqsUpTo(S, n) == UNION {[1..m -> S] : m \in 0..n}

\* The tokens of {{#each xs}}{{#if y}}A{{else}}B{{/if}}{{/each}}
EachIfTemplate ==
    <<TextToken(""), BlockStartToken("each", <<"xs">>),
      TextToken(""), BlockStartToken("if", <<"y">>),
      TextToken("A"), FieldToken(<<"else">>),
      TextToken("B"), BlockEndToken("if"),
      TextToken(""), BlockEndToken("each")>>

\* {{#h p}}{{y}}A{{else}}{{y}}B{{/h}}: both branches show the context they get
ProbePaths == {<<"x">>, <<"x", "y">>, <<"this">>, <<"x", "this">>}

ProbeTemplate(h, p) ==
    <<BlockStartToken(h, p), FieldToken(<<"y">>), TextToken("A"),
      FieldToken(<<"else">>), FieldToken(<<"y">>), TextToken("B"),
      BlockEndToken(h)>>

\* The tokens of {{#if x}}A{{else}}B{{else}}C{{/if}}
DoubleElseTemplate ==
    <<BlockStartToken("if", <<"x">>), TextToken("A"), FieldToken(<<"else">>),
      TextToken("B"), FieldToken(<<"else">>), TextToken("C"), BlockEndToken("if")>>

\* The tokens of {{x}}<p>{{x}}</p>
FieldTwiceTemplate ==
    <<FieldToken(<<"x">>), NodeToken("P", <<>>, <<FieldToken(<<"x">>)>>)>>

\* The tokens of {{#each x}}{{#each this}}A{{/each}}{{/each}}
NestedEachTemplate ==
    <<BlockStartToken("each", <<"x">>), BlockStartToken("each", <<"this">>),
      TextToken("A"), BlockEndToken("each"), BlockEndToken("each")>>

\* An else inside a child element of a block, and a dotted field
OtherTemplates ==
    {<<BlockStartToken("if", <<"x">>),
       NodeToken("P", <<>>, <<FieldToken(<<"else">>), TextToken("A")>>),
       TextToken("B"), BlockEndToken("if")>>,
     <<FieldToken(<<"x">>)>>,
     <<FieldToken(<<"x", "y">>)>>,
     <<NodeToken("P", <<[name |-> "id", value |-> <<"{", "{", "y", "}", "}">>],
                        [name |-> "title",
                         value |-> <<"a", "{", "{", "x", ".", "y", "}", "}", "b">>],
                        [name |-> "class",
                         value |-> <<"{", "{", "y", "}", "}", "-",
                                     "{", "{", "x", ".", "y", "}", "}">>]>>,
                 <<TextToken("A")>>)>>,
     <<FieldToken(<<"x", "y", "y">>)>>,
     <<NodeToken("P", <<>>, <<BlockStartToken("each", <<"x">>),
                              NodeToken("P", <<>>, <<FieldToken(<<"y">>)>>),
                              BlockEndToken("each")>>)>>}

Templates ==
    SeqsUpTo(Alphabet, MaxTokens)
    \cup {EachIfTemplate, DoubleElseTemplate, FieldTwiceTemplate, NestedEachTemplate}
    \cup {ProbeTemplate(h, p) : h \in HelperNames, p \in ProbePaths}
    \cup OtherTemplates

\* The templates rendered more than once
RepeatTemplates == OtherTemplates

\* The nodes the caller holds before any render: <b> and <i>, both detached.
ContextNodes == <<ElementNode("B"), ElementNode("I")>>

ItemTrue == Obj([y |-> Bool(TRUE)])

ItemFalse == Obj([y |-> Bool(FALSE)])

\* An item whose y is the first node of the caller
ItemNode == Obj([y |-> NodeVal(1)])

\* The values the key x of a context takes
XValues ==
    {Undefined, Null, Bool(FALSE), Num(0), Num(5),
     Str(<<>>), Str(<<"a", "b">>),
     Arr(<<>>), Arr(<<ItemTrue, ItemFalse>>), Arr(<<ItemNode, ItemNode>>),
     Obj([y |-> Str(<<"i">>)]),
     NodeVal(1), JQuery(<<1, 2>>), Ref(1), Ref(2)}

Contexts ==
    {Obj([x |-> v, y |-> Str(<<"o">>)]) : v \in XValues}
    \cup {Obj([xs |-> Arr(<<ItemTrue, ItemFalse>>)]),
          Arr(<<ItemTrue, ItemFalse>>), Null}

\* The pieces template texts are made of: A, a line break, {{y}}, {{x.y}},
\* {{#if x}}, {{/if}}, {{else}} and {{#if x y}}
TextPieces ==
    {<<"A">>, <<"\n">>,
     <<"{", "{", "y", "}", "}">>,
     <<"{", "{", "x", ".", "y", "}", "}">>,
     <<"{", "{", "#", "i", "f", " ", "x", "}", "}">>,
     <<"{", "{", "/", "i", "f", "}", "}">>,
     <<"{", "{", "e", "l", "s", "e", "}", "}">>,
     <<"{", "{", "#", "i", "f", " ", "x", " ", "y", "}", "}">>}

RECURSIVE Concat(_)
Concat(seqs) == IF seqs = <<>> THEN <<>> ELSE seqs[1] \o Concat(Tail(seqs))

\* The text of a text node is never empty.
Texts == {Concat(pieces) : pieces \in SeqsUpTo(TextPieces, MaxPieces)} \ {<<>>}

\* What parseDOM returns for the template strings: the text alone, and the
\* text as the content of a <p>
Sources ==
    {<<SourceText(t)>> : t \in Texts}
    \cup {<<SourceElement("P", <<>>, <<SourceText(t)>>)>> : t \in Texts}

\* The path pieces and the values resolvePath is called with on its own
Pieces == {"x", "y", "this", "length"}

PathData == Contexts \cup XValues \cup {Obj([x |-> Obj([y |-> Num(2)])])}

-----------------------------------------------------------------------------
(* Template.helpers[name]: "undefined" when nothing is registered under the *)
(* name.                                                                    *)

Lookup(registry, name) ==
    IF name \in DOMAIN registry THEN registry[name] ELSE "undefined"

\* Template.helpers[name] = helper: src/stubble.ts 35, 55, 73
SetHelper(table, name, helper) ==
    [n \in DOMAIN table \cup {name} |-> IF n = name THEN helper ELSE table[n]]

\* A registration that puts the entry at the end of the list
registerHelperLast(entries, name, helper) ==
    Append(entries, [name |-> name, helper |-> helper])

\* Template.registerHelper of the token-stream variant: the entry is put at
\* the front of the list (src/unnamed/part_000 25-30)
registerHelper(entries, name, helper) ==
    <<[name |-> name, helper |-> helper]>> \o entries

\* Template.findHelper (src/unnamed/part_000 32-41): the helper of the first
\* entry named by the first word of name, or null
findHelper(entries, name) ==
    LET firstWord == JoinChars(SplitChars(name, " ", <<>>)[1])
        named     == {i \in DOMAIN entries : entries[i].name = firstWord}
    IN  IF named = {} THEN "null" ELSE entries[Least(named)].helper

\* The registrations made when the module is loaded, in order
\* (src/unnamed/part_000 250, 260, 270), and the list they leave
BuiltinRegistrations ==
    <<[name |-> "with", helper |-> "with"], [name |-> "if", helper |-> "if"],
      [name |-> "each", helper |-> "each"]>>

BuiltinEntries ==
    registerHelper(registerHelper(registerHelper(<<>>, "with", "with"), "if", "if"),
                   "each", "each")

\* The names helpers are registered under, and the names looked up: each,
\* each with an argument, foo and bar
RegisteredNames == {"each", "foo"}

LookupNames ==
    {<<"e", "a", "c", "h">>, <<"e", "a", "c", "h", " ", "x">>, <<"f", "o", "o">>,
     <<"b", "a", "r">>}

\* The names helpers are assigned to by the program, and the templates
\* compiled around the assignments: {{#h x}}{{y}}A{{else}}{{y}}B{{/h}} for
\* h = if and h = foo
AssignedNames == {"if", "foo"}

AssignTemplates == {ProbeTemplate(h, <<"x">>) : h \in AssignedNames}

\* The tokens of the streams collectBlock is called with: A, {{else}},
\* {{#if x}}, {{/if}} and {{#each x}}
StreamTokens ==
    {StreamText("A"), StreamField(ElseField),
     StreamField(<<"#", "i", "f", " ", "x">>), StreamField(<<"/", "i", "f">>),
     StreamField(<<"#", "e", "a", "c", "h", " ", "x">>)}

Streams == SeqsUpTo(StreamTokens, MaxStream)

-----------------------------------------------------------------------------
(* The steps of ParseState.parseToEnd.  Each returns the ParseState after   *)
(* the step and the error the step throws ("none" when it returns).         *)

Ok(ps) == [ps |-> ps, error |-> "none"]

Throw(ps, name) == [ps |-> ps, error |-> name]

\* startBlock without the throw of BlockRecipe's constructor
startBlockUnchecked(ps, block, registry) ==
    Ok([ps EXCEPT !.blockState =
            Append(@, NewBlockRecipe(block, Lookup(registry, block.name)))])

\* ParseState.startBlock with BlockRecipe's constructor: the helper is looked up
\* in Template.helpers and a missing one throws.
startBlock(ps, block, registry) ==
    LET recipe == NewBlockRecipe(block, Lookup(registry, block.name)) IN
    IF recipe.helper = "undefined"
    THEN Throw(ps, "UnknownHelperError")
    ELSE Ok([ps EXCEPT !.blockState = Append(@, recipe)])

\* endBlock without the comparison of the two names
endBlockUnchecked(ps, end) ==
    LET length == Len(ps.blockState) IN
    IF length = 0
    THEN Throw(ps, "TypeError")
    ELSE Ok(PushRecipe([ps EXCEPT !.blockState = SubSeq(@, 1, length - 1)],
                       ps.blockState[length]))

\* endBlock that pops the block and pushes it nowhere
endBlockDropping(ps, end) ==
    LET length == Len(ps.blockState) IN
    IF length = 0
    THEN Throw(ps, "TypeError")
    ELSE LET block  == ps.blockState[length]
             popped == [ps EXCEPT !.blockState = SubSeq(@, 1, length - 1)]
         IN  IF block.name # end.name
             THEN Throw(popped, "UnexpectedBlockEndError")
             ELSE Ok(popped)

\* ParseState.endBlock: blockState.pop() of an empty array is undefined, and
\* reading .name of undefined is a TypeError.
endBlock(ps, end) ==
    LET length == Len(ps.blockState) IN
    IF length = 0
    THEN Throw(ps, "TypeError")
    ELSE LET block  == ps.blockState[length]
             popped == [ps EXCEPT !.blockState = SubSeq(@, 1, length - 1)]
         IN  IF block.name # end.name
             THEN Throw(popped, "UnexpectedBlockEndError")
             ELSE Ok(PushRecipe(popped, block))

\* What parseToEnd returns once the loop has ended.
parseToEndResult(ps) == ps.recipes

-----------------------------------------------------------------------------
(* The actions: one per branch of the loop of parseToEnd, on the innermost  *)
(* running tokensToRecipes call, and one for its return.                    *)

Top == stack[Len(stack)]

Running == status = "parsing" /\ ~atEndOfStream(Top)

\* The outcome of a loop step on the innermost ParseState.
Continue(res) ==
    /\ stack' = [stack EXCEPT ![Len(stack)] = res.ps]
    /\ IF res.error = "none"
       THEN UNCHANGED <<status, error>>
       ELSE status' = "failed" /\ error' = res.error
    /\ UNCHANGED <<helpers, tokens, recipes, dom, renders, rp,
                 source, helperEntries, regCall, collect>>

ParseTextToken ==
    /\ Running
    /\ PeekToken(Top).type = "Text"
    /\ Continue(Ok(PushRecipe(Advance(Top), TextRecipe(PeekToken(Top).text))))

ParseFieldToken ==
    /\ Running
    /\ PeekToken(Top).type = "Field"
    /\ Continue(Ok(PushRecipe(Advance(Top), FieldRecipe(PeekToken(Top)))))

\* new NodeRecipe(token) calls tokensToRecipes(token.childTokens): a new
\* ParseState runs to its end before the recipe is pushed.
ParseNodeToken ==
    /\ Running
    /\ PeekToken(Top).type = "Node"
    /\ stack' = Append([stack EXCEPT ![Len(stack)] = Advance(Top)],
                       NewParseState(PeekToken(Top).childTokens))
    /\ UNCHANGED <<helpers, tokens, status, error, recipes, dom, renders, rp,
                 source, helperEntries, regCall, collect>>

StartBlock ==
    /\ Running
    /\ PeekToken(Top).type = "BlockStart"
    /\ Continue(startBlock(Advance(Top), PeekToken(Top), helpers))

EndBlock ==
    /\ Running
    /\ PeekToken(Top).type = "BlockEnd"
    /\ Continue(endBlock(Advance(Top), PeekToken(Top)))

\* parseToEnd of a child sequence returns: NodeRecipe's constructor finishes and
\* the caller pushes the recipe.
ReturnToNode ==
    /\ status = "parsing"
    /\ atEndOfStream(Top)
    /\ Len(stack) > 1
    /\ LET caller == stack[Len(stack) - 1]
           token  == caller.tokens[caller.index]
       IN  stack' = SubSeq(stack, 1, Len(stack) - 2) \o
                    <<PushRecipe(caller, NodeRecipe(token, parseToEndResult(Top)))>>
    /\ UNCHANGED <<helpers, tokens, status, error, recipes, dom, renders, rp,
                 source, helperEntries, regCall, collect>>

\* parseToEnd of the top-level sequence returns: the constructor stores the
\* optimized recipes.
ConstructorReturn ==
    /\ status = "parsing"
    /\ atEndOfStream(Top)
    /\ Len(stack) = 1
    /\ recipes' = optimizeRecipes(parseToEndResult(Top))
    /\ status' = "compiled"
    /\ UNCHANGED <<helpers, tokens, stack, error, dom, renders, rp,
                 source, helperEntries, regCall, collect>>

\* Template.render(data): $(target).contents() is the list of the children of
\* the new div.
\* text is the text of the returned nodes at the return.
RenderCall(data, r) ==
    [data |-> data, target |-> r.target, err |-> r.rs.err, calls |-> r.rs.calls,
     contents |-> IF r.rs.err = "none" THEN r.rs.nodes[r.target].childNodes ELSE <<>>,
     text |-> textContent(r.rs.nodes, r.target)]

MayRender ==
    /\ status = "compiled"
    /\ \/ renders = <<>>
       \/ tokens \in RepeatTemplates /\ Len(renders) < MaxRenders

\* A render that takes its recipes off the list as it goes, as the
\* token-stream variant does with its tokens
RenderConsuming ==
    /\ MayRender
    /\ \E data \in Contexts :
          LET r == renderTemplate(recipes, data, dom) IN
          /\ dom' = r.rs.nodes
          /\ renders' = Append(renders, RenderCall(data, r))
    /\ recipes' = <<>>
    /\ UNCHANGED <<helpers, tokens, stack, status, error, rp,
                 source, helperEntries, regCall, collect>>

Render ==
    /\ MayRender
    /\ \E data \in Contexts :
          LET r == renderTemplate(recipes, data, dom) IN
          /\ dom' = r.rs.nodes
          /\ renders' = Append(renders, RenderCall(data, r))
    /\ UNCHANGED <<helpers, tokens, stack, status, error, recipes, rp,
                 source, helperEntries, regCall, collect>>

\* The constructor up to the call of tokensToRecipes: parseTokens(template)
\* makes the tokens of the nodes parseDOM returned.
ParseTokens ==
    /\ status = "tokenizing"
    /\ tokens' = nodesToTokens(source.nodes)
    /\ stack' = <<NewParseState(tokens')>>
    /\ status' = "parsing"
    /\ UNCHANGED <<helpers, error, recipes, dom, renders, rp,
                 source, helperEntries, regCall, collect>>

\* A helper is registered: in the list of the token-stream variant and in the
\* table of src/stubble.ts.  log lists the registrations in the order made.
RegisterHelper ==
    /\ status = "registry"
    /\ Len(regCall.log) < Len(BuiltinRegistrations) + MaxRegistrations
    /\ \E name \in RegisteredNames, helper \in HelperNames :
          /\ helperEntries' = registerHelper(helperEntries, name, helper)
          /\ helpers' = SetHelper(helpers, name, helper)
          /\ regCall' = [state |-> "registered", name |-> name, helper |-> helper,
                         log |-> Append(regCall.log, [name |-> name, helper |-> helper])]
    /\ UNCHANGED <<tokens, stack, status, error, recipes, dom, renders, rp, source, collect>>

\* A helper is looked up
FindHelper ==
    /\ status = "registry"
    /\ \E name \in LookupNames :
          regCall' = [regCall EXCEPT !.state = "found", !.name = name,
                                     !.helper = findHelper(helperEntries, name)]
    /\ UNCHANGED <<helpers, tokens, stack, status, error, recipes, dom, renders, rp,
                   source, helperEntries, collect>>

\* new Template(...) up to the call of parseToEnd: tokensToRecipes makes the
\* ParseState of the tokens (src/stubble.ts 11-13, 461-463)
Construct ==
    /\ status = "loaded"
    /\ stack' = <<NewParseState(tokens)>>
    /\ status' = "parsing"
    /\ UNCHANGED <<helpers, tokens, error, recipes, dom, renders, rp,
                   source, helperEntries, regCall, collect>>

\* Template.helpers[name] = helper, by the program that uses the module,
\* before a template is compiled or after.  log lists the assignments in the
\* order made, each with whether the template was compiled by then and the
\* number of renders made before it.
AssignHelper ==
    /\ status \in {"loaded", "compiled"}
    /\ Len(regCall.log) < MaxAssignments
    /\ \E name \in AssignedNames, helper \in HelperNames :
          /\ helpers' = SetHelper(helpers, name, helper)
          /\ regCall' = [state |-> "assigned", name |-> name, helper |-> helper,
                         log |-> Append(regCall.log,
                                        [name |-> name, helper |-> helper,
                                         compiled |-> status = "compiled",
                                         renders |-> Len(renders)])]
    /\ UNCHANGED <<tokens, stack, status, error, recipes, dom, renders, rp,
                   source, helperEntries, collect>>

\* An iteration of the loop of collectBlock: the front token is shifted off
\* the stream and handled
CollectShift ==
    /\ collect.state = "loop"
    /\ collect.tokens # <<>>
    /\ collect' = CollectToken([collect EXCEPT !.tokens = Tail(@)], collect.tokens[1])
    /\ UNCHANGED <<helpers, tokens, stack, status, error, recipes, dom, renders, rp,
                   source, helperEntries, regCall>>

\* collectBlock returns: the loop has ended at the break or with the stream
CollectReturn ==
    /\ \/ collect.state = "broke"
       \/ collect.state = "loop" /\ collect.tokens = <<>>
    /\ collect' = [collect EXCEPT !.state = "returned"]
    /\ UNCHANGED <<helpers, tokens, stack, status, error, recipes, dom, renders, rp,
                   source, helperEntries, regCall>>

-----------------------------------------------------------------------------
(* resolvePath called on its own, one loop iteration per step.  reads lists *)
(* the values a property was read from, in order.                           *)

NoCall == [state |-> "none"]

NewCall(path, data) ==
    [state |-> "loop", path |-> path, input |-> data, data |-> data, index |-> 0,
     reads |-> <<>>]

ResolveNextPiece ==
    /\ rp.state = "loop"
    /\ rp.index < Len(rp.path)
    /\ LET piece == rp.path[rp.index + 1]
           value == ResolvePiece(piece, rp.data)
       IN  rp' = [rp EXCEPT
                    !.index = @ + 1,
                    !.data  = value,
                    !.reads = IF ReadsProperty(piece, rp.data)
                              THEN Append(@, rp.data) ELSE @,
                    !.state = IF value.k = "TypeError" THEN "threw" ELSE "loop"]
    /\ UNCHANGED <<helpers, tokens, stack, status, error, recipes, dom, renders,
                 source, helperEntries, regCall, collect>>

ResolveReturn ==
    /\ rp.state = "loop"
    /\ rp.index = Len(rp.path)
    /\ rp' = [rp EXCEPT !.state = "returned"]
    /\ UNCHANGED <<helpers, tokens, stack, status, error, recipes, dom, renders,
                 source, helperEntries, regCall, collect>>

-----------------------------------------------------------------------------
(* The specification: either a template is compiled from a token stream of  *)
(* the bounded set and then rendered against any context, or resolvePath is *)
(* called with a path and a value of the bounded sets.                      *)

InitTemplate ==
    /\ helpers = BuiltinHelpers
    /\ tokens \in Templates
    /\ stack = <<NewParseState(tokens)>>
    /\ status = "parsing"
    /\ error = "none"
    /\ recipes = <<>>
    /\ dom = ContextNodes
    /\ renders = <<>>
    /\ rp = NoCall
    /\ source = NoCall
    /\ helperEntries = <<>>
    /\ regCall = NoCall
    /\ collect = NoCall

InitPath ==
    /\ helpers = BuiltinHelpers
    /\ tokens = <<>>
    /\ stack = <<>>
    /\ status = "idle"
    /\ error = "none"
    /\ recipes = <<>>
    /\ dom = ContextNodes
    /\ renders = <<>>
    /\ rp \in {NewCall(p, d) : p \in SeqsUpTo(Pieces, MaxPath), d \in PathData}
    /\ source = NoCall
    /\ helperEntries = <<>>
    /\ regCall = NoCall
    /\ collect = NoCall

Init == InitTemplate \/ InitPath

Next ==
    \/ ParseTextToken
    \/ ParseFieldToken
    \/ ParseNodeToken
    \/ StartBlock
    \/ EndBlock
    \/ ReturnToNode
    \/ ConstructorReturn
    \/ Render
    \/ ResolveNextPiece
    \/ ResolveReturn

Spec == Init /\ [][Next]_vars

\* A step of the constructor: the loop of parseToEnd and the returns
ParserNext ==
    \/ ParseTextToken
    \/ ParseFieldToken
    \/ ParseNodeToken
    \/ StartBlock
    \/ EndBlock
    \/ ReturnToNode
    \/ ConstructorReturn

\* The constructor runs to its end once it is called: it is one synchronous
\* call, so a step of it that can be taken is taken.
SpecFair == Spec /\ WF_vars(ParserNext)

-----------------------------------------------------------------------------
(* The constructor on a template string: the nodes of the string are made   *)
(* into tokens and the tokens into recipes.                                 *)

InitText ==
    /\ helpers = BuiltinHelpers
    /\ tokens = <<>>
    /\ stack = <<>>
    /\ status = "tokenizing"
    /\ error = "none"
    /\ recipes = <<>>
    /\ dom = ContextNodes
    /\ renders = <<>>
    /\ rp = NoCall
    /\ source \in {[state |-> "parsed", nodes |-> nodes] : nodes \in Sources}
    /\ helperEntries = <<>>
    /\ regCall = NoCall
    /\ collect = NoCall

NextText ==
    \/ ParseTokens
    \/ ParseTextToken
    \/ ParseFieldToken
    \/ ParseNodeToken
    \/ StartBlock
    \/ EndBlock
    \/ ReturnToNode
    \/ ConstructorReturn

SpecText == InitText /\ [][NextText]_vars

-----------------------------------------------------------------------------
(* The helper registry: helpers are registered and looked up after the      *)
(* module has registered the built-in ones.                                *)

InitRegistry ==
    /\ helpers = BuiltinHelpers
    /\ tokens = <<>>
    /\ stack = <<>>
    /\ status = "registry"
    /\ error = "none"
    /\ recipes = <<>>
    /\ dom = ContextNodes
    /\ renders = <<>>
    /\ rp = NoCall
    /\ source = NoCall
    /\ helperEntries = BuiltinEntries
    /\ regCall = [state |-> "loaded", name |-> "", helper |-> "",
                  log |-> BuiltinRegistrations]
    /\ collect = NoCall

NextRegistry == RegisterHelper \/ FindHelper

SpecRegistry == InitRegistry /\ [][NextRegistry]_vars

-----------------------------------------------------------------------------
(* Helpers assigned around a compilation: the program assigns helpers to    *)
(* Template.helpers, compiles a template, assigns again and renders.        *)

InitAssign ==
    /\ helpers = BuiltinHelpers
    /\ tokens \in AssignTemplates
    /\ stack = <<>>
    /\ status = "loaded"
    /\ error = "none"
    /\ recipes = <<>>
    /\ dom = ContextNodes
    /\ renders = <<>>
    /\ rp = NoCall
    /\ source = NoCall
    /\ helperEntries = <<>>
    /\ regCall = [state |-> "loaded", name |-> "", helper |-> "", log |-> <<>>]
    /\ collect = NoCall

NextAssign ==
    \/ AssignHelper
    \/ Construct
    \/ ParseTextToken
    \/ ParseFieldToken
    \/ StartBlock
    \/ EndBlock
    \/ ConstructorReturn
    \/ Render

SpecAssign == InitAssign /\ [][NextAssign]_vars

-----------------------------------------------------------------------------
(* collectBlock called on a token stream of the bounded set                 *)

InitCollect ==
    /\ helpers = BuiltinHelpers
    /\ tokens = <<>>
    /\ stack = <<>>
    /\ status = "idle"
    /\ error = "none"
    /\ recipes = <<>>
    /\ dom = ContextNodes
    /\ renders = <<>>
    /\ rp = NoCall
    /\ source = NoCall
    /\ helperEntries = BuiltinEntries
    /\ regCall = NoCall
    /\ collect \in {NewCollect(toks) : toks \in Streams}

NextCollect == CollectShift \/ CollectReturn

SpecCollect == InitCollect /\ [][NextCollect]_vars

-----------------------------------------------------------------------------
(* Properties of the parser                                                 *)

\* The innermost running parse has read the token it is now handling.
Handling(type) == Running /\ PeekToken(Top).type = type

\* The innermost running parse after the step
TopAfter == stack'[Len(stack')]

\* Every recipe of a recipe list, at any depth
RECURSIVE RecipesIn(_)
RecipesIn(list) ==
    UNION {{list[i]} \cup
           (CASE list[i].kind = "Node"  -> RecipesIn(list[i].childRecipes)
              [] list[i].kind = "Block" -> RecipesIn(list[i].defaultBranch)
                                           \cup RecipesIn(list[i].elseBranch)
              [] OTHER -> {})
           : i \in 1..Len(list)}

\* C1: a token sequence (top-level or the children of an element) that ends
\* while a block is still open makes the compilation fail: parseToEnd does not
\* return a recipe list then.
C1_UnterminatedBlockFails ==
    [][(status = "parsing" /\ atEndOfStream(Top) /\ Top.blockState # <<>>)
        => status' = "failed"]_vars

\* A step that handles a BlockEnd while a block is open
C2_BlockEndStep ==
    (Handling("BlockEnd") /\ Top.blockState # <<>>) =>
        LET block == Top.blockState[Len(Top.blockState)] IN
        IF block.name # PeekToken(Top).name
        THEN status' = "failed" /\ error' = "UnexpectedBlockEndError"
        ELSE /\ status' = "parsing" /\ error' = "none"
             /\ Len(TopAfter.blockState) = Len(Top.blockState) - 1

\* C2: a BlockEnd whose name differs from the name of the innermost open block
\* fails the compilation with UnexpectedBlockEndError, and a failed compilation
\* stays failed and yields no recipes; a BlockEnd of the same name closes the
\* block without error.
C2_BlockEndMismatch ==
    [][/\ C2_BlockEndStep
       /\ status = "failed" => (status' = "failed" /\ recipes' = <<>>)]_vars

C2_Witness ==
    /\ status = "failed"
    /\ error = "UnexpectedBlockEndError"
    /\ Top.tokens[Top.index].type = "BlockEnd"

\* A step that handles a BlockStart whose name has no registered helper
C3_StartStep ==
    (Handling("BlockStart") /\ PeekToken(Top).name \notin DOMAIN helpers) =>
        /\ status' = "failed" /\ error' = "UnknownHelperError"
        /\ TopAfter.index = Top.index + 1
        /\ Len(stack') = Len(stack)

\* The helpers of the Block recipes of a compiled template, and its renders
C3_HelpersBound ==
    /\ status = "compiled" =>
          \A r \in RecipesIn(recipes) :
              r.kind = "Block" => r.helper # "undefined" /\ r.helper = helpers[r.name]
    /\ \A i \in 1..Len(renders) : renders[i].err = "none"

IsElseToken(token) == token.type = "Field" /\ token.path = <<"else">>

\* A step that handles an else while a block is open
C4_ElseStep ==
    (Handling("Field") /\ IsElseToken(PeekToken(Top)) /\ Top.blockState # <<>>) =>
        LET n == Len(Top.blockState) IN
        /\ Len(TopAfter.blockState) = n
        /\ \A i \in 1..(n - 1) : TopAfter.blockState[i] = Top.blockState[i]
        /\ TopAfter.blockState[n] = [Top.blockState[n] EXCEPT !.currentBranch = "else"]
        /\ TopAfter.recipes = Top.recipes

\* The if block of {{#each xs}}{{#if y}}A{{else}}B{{/if}}{{/each}}
C4_IfBlock ==
    [kind |-> "Block", name |-> "if", path |-> <<"y">>,
     defaultBranch |-> <<TextRecipe("A")>>,
     elseBranch |-> <<TextRecipe("B")>>, currentBranch |-> "else", helper |-> "if"]

\* What that template compiles to and renders
C4_EachIf ==
    (status = "compiled" /\ tokens = EachIfTemplate) =>
        /\ Len(recipes) = 2
        /\ recipes[2].kind = "Block" /\ recipes[2].name = "each"
        /\ recipes[2].defaultBranch = <<TextRecipe(""), C4_IfBlock, TextRecipe("")>>
        /\ recipes[2].elseBranch = <<>>
        /\ \A i \in 1..Len(renders) :
              renders[i].data = Obj([xs |-> Arr(<<ItemTrue, ItemFalse>>)])
                  => textContent(dom, renders[i].target) = "AB"

\* C4: an else read while several blocks are open switches the branch of the
\* innermost open block only and leaves every enclosing block as it is;
\* {{#each xs}}{{#if y}}A{{else}}B{{/if}}{{/each}} compiles to an each block
\* whose default branch holds the whole if block and whose else branch is
\* empty, and renders AB for xs = [{y: true}, {y: false}].
C4_InnerElse == []C4_EachIf /\ [][C4_ElseStep]_vars

C4_Witness ==
    /\ status = "parsing"
    /\ Len(Top.blockState) = 2
    /\ Top.blockState[1].currentBranch = "default"
    /\ Top.blockState[2].currentBranch = "else"
    /\ tokens = EachIfTemplate

-----------------------------------------------------------------------------
(* Properties of the helpers, stated on the renderInto calls of a render.   *)

\* The position after the last call made, directly or not, by call i
CallEnd(calls, i) ==
    LET later == {j \in (i + 1)..Len(calls) : calls[j].depth <= calls[i].depth}
    IN  IF later = {} THEN Len(calls) + 1
        ELSE CHOOSE j \in later : \A m \in later : j <= m

\* The calls made by call i itself, in order
ChildCalls(calls, i) ==
    LET made == SelectSeq([j \in 1..Len(calls) |-> j],
                          LAMBDA j : /\ j > i /\ j < CallEnd(calls, i)
                                     /\ calls[j].depth = calls[i].depth + 1)
    IN  [m \in 1..Len(made) |->
            [recipe |-> calls[made[m]].recipe, target |-> calls[made[m]].target,
             data |-> calls[made[m]].data]]

\* Every recipe of the branch rendered once, in order, into target with data
BranchCalls(branch, target, data) ==
    [m \in 1..Len(branch) |-> [recipe |-> branch[m], target |-> target, data |-> data]]

\* The branch rendered once per item, item after item
LoopCalls(items, branch, target) ==
    [m \in 1..(Len(items) * Len(branch)) |->
        [recipe |-> branch[((m - 1) % Len(branch)) + 1], target |-> target,
         data |-> items[((m - 1) \div Len(branch)) + 1]]]

\* The calls of render r that are calls of a block bound to the helper
HelperCalls(r, helper) ==
    {i \in 1..Len(r.calls) :
        r.calls[i].recipe.kind = "Block" /\ r.calls[i].recipe.helper = helper}

Resolved(call) == resolvePath(call.recipe.path, call.data)

HasNonzeroLength(v) ==
    /\ ~IsNullish(v)
    /\ Prop(v, "length").k = "number"
    /\ Prop(v, "length").n # 0

\* C5: with renders exactly one branch: the default branch, in order, with the
\* resolved value as context when that value is truthy, and otherwise the else
\* branch, in order, with the outer context.
C5_With ==
    \A n \in 1..Len(renders) : \A i \in HelperCalls(renders[n], "with") :
        LET call == renders[n].calls[i] IN
        ChildCalls(renders[n].calls, i) =
            IF Truthy(Resolved(call))
            THEN BranchCalls(call.recipe.defaultBranch, call.target, Resolved(call))
            ELSE BranchCalls(call.recipe.elseBranch, call.target, call.data)

C5_Witness ==
    \E n \in 1..Len(renders) : \E i \in HelperCalls(renders[n], "with") :
        LET call == renders[n].calls[i] IN
        /\ ~Truthy(Resolved(call))
        /\ ~IsNullish(Resolved(call))
        /\ call.recipe.defaultBranch # <<>>
        /\ Len(call.recipe.elseBranch) = 2
        /\ ChildCalls(renders[n].calls, i)[2].data = call.data

\* C6: each over a value of nonzero length renders the whole default branch
\* once per element, in element order, with the element as context, into the
\* target, and renders nothing of the else branch.
C6_EachItems ==
    \A n \in 1..Len(renders) : \A i \in HelperCalls(renders[n], "each") :
        LET call == renders[n].calls[i] IN
        HasNonzeroLength(Resolved(call)) =>
            /\ ChildCalls(renders[n].calls, i) =
                   LoopCalls(Elements(Resolved(call)), call.recipe.defaultBranch,
                             call.target)
            /\ Len(ChildCalls(renders[n].calls, i)) =
                   Prop(Resolved(call), "length").n * Len(call.recipe.defaultBranch)

C6_Witness ==
    \E n \in 1..Len(renders) : \E i \in HelperCalls(renders[n], "each") :
        LET call == renders[n].calls[i] IN
        /\ Resolved(call) = Arr(<<ItemTrue, ItemFalse>>)
        /\ Len(call.recipe.defaultBranch) = 2
        /\ call.recipe.elseBranch # <<>>
        /\ Len(ChildCalls(renders[n].calls, i)) = 4

\* A value each finds no items in
HasNoItems(v) ==
    \/ IsNullish(v)
    \/ Prop(v, "length") = Undefined
    \/ Prop(v, "length") = Num(0)

\* The text a render of the recipes against data yields
RenderedText(list, data) ==
    LET r == renderTemplate(list, data, ContextNodes)
    IN  textContent(r.rs.nodes, r.target)

\* C7: each over null or undefined, over a value without a length, or over a
\* collection of length zero renders the else branch once with the outer
\* context and nothing of the default branch; {{#each x}}{{y}}A{{else}}{{y}}B{{/each}}
\* renders the same text for x = [] and for x = null.
C7_EachElse ==
    /\ \A n \in 1..Len(renders) : \A i \in HelperCalls(renders[n], "each") :
          LET call == renders[n].calls[i] IN
          HasNoItems(Resolved(call)) =>
              ChildCalls(renders[n].calls, i) =
                  BranchCalls(call.recipe.elseBranch, call.target, call.data)
    /\ (status = "compiled" /\ tokens = ProbeTemplate("each", <<"x">>)) =>
          /\ RenderedText(recipes, Obj([x |-> Arr(<<>>), y |-> Str(<<"o">>)])) = "oB"
          /\ RenderedText(recipes, Obj([x |-> Null, y |-> Str(<<"o">>)])) = "oB"

C7_Witness ==
    \E n \in 1..Len(renders) : \E i \in HelperCalls(renders[n], "each") :
        LET call == renders[n].calls[i] IN
        /\ Resolved(call) = Arr(<<>>)
        /\ call.recipe.defaultBranch # <<>>
        /\ Len(ChildCalls(renders[n].calls, i)) = 2

\* C8: if renders exactly one branch, with the unchanged context: the default
\* branch when the resolved value is truthy, the else branch otherwise.
C8_If ==
    \A n \in 1..Len(renders) : \A i \in HelperCalls(renders[n], "if") :
        LET call == renders[n].calls[i]
            branch == IF Truthy(Resolved(call)) THEN call.recipe.defaultBranch
                      ELSE call.recipe.elseBranch
        IN  ChildCalls(renders[n].calls, i) = BranchCalls(branch, call.target, call.data)

C8_Witness ==
    \E n \in 1..Len(renders) : \E i \in HelperCalls(renders[n], "if") :
        LET call == renders[n].calls[i] IN
        /\ Truthy(Resolved(call))
        /\ Len(call.recipe.defaultBranch) = 2
        /\ call.recipe.elseBranch # <<>>
        /\ ChildCalls(renders[n].calls, i)[1].data = call.data

-----------------------------------------------------------------------------
(* Properties of resolvePath                                                *)

\* The traversal of a path from position i on: a piece leaves the value as it
\* is when the value is null or undefined or the piece is this, and every
\* other piece replaces the value by its property of that name.
RECURSIVE Traversal(_, _, _)
Traversal(path, i, value) ==
    IF i > Len(path) THEN value
    ELSE Traversal(path, i + 1,
                   IF IsNullish(value) \/ path[i] = "this" THEN value
                   ELSE Prop(value, path[i]))

\* C9: resolvePath returns the result of that traversal, for every context
\* and every path.
C9_ResolveIsTraversal ==
    rp.state = "returned" => rp.data = Traversal(rp.path, 1, rp.input)

\* Nothing has raised, and no property was read from null or undefined
C10_NoRaise ==
    /\ rp.state # "threw"
    /\ rp.state # "none" => \A i \in 1..Len(rp.reads) : ~IsNullish(rp.reads[i])
    /\ \A n \in 1..Len(renders) : renders[n].err = "none"

\* An iteration that finds the value null or undefined
C10_NullStays ==
    (rp.state = "loop" /\ IsNullish(rp.data)) =>
        /\ rp'.data = rp.data
        /\ rp'.reads = rp.reads
        /\ rp'.state \in {"loop", "returned"}

\* C10: resolvePath never raises: no property is read from null or undefined,
\* a value that is null or undefined stays the value up to the return, and no
\* render raises, whatever its paths pass through.
C10_NeverRaises == []C10_NoRaise /\ [][C10_NullStays]_vars

C10_Witness ==
    /\ rp.state = "returned"
    /\ rp.path = <<"x", "y", "length">>
    /\ rp.input = Obj([x |-> Null, y |-> Str(<<"o">>)])
    /\ rp.data = Null
    /\ rp.reads = <<rp.input>>

-----------------------------------------------------------------------------
(* Properties of the renderer, stated on the document                       *)

\* The nodes render n created, its target apart: those after its target and
\* before the target of the next render
CreatedBy(n) ==
    {id \in DOMAIN dom :
        /\ id > renders[n].target
        /\ n < Len(renders) => id < renders[n + 1].target}

\* The render calls of a template that is one Field recipe
FieldRenders ==
    IF status = "compiled" /\ Len(recipes) = 1 /\ recipes[1].kind = "Field"
    THEN DOMAIN renders ELSE {}

\* C11: a Field recipe appends nothing for a value that is null or undefined,
\* the node itself (no new node is made) for a node, each element of a jQuery
\* collection in order for a collection, and for every other value one new
\* text node that holds value.toString(); every value is of exactly one of the
\* four kinds.
C11_FieldAppends ==
    \A n \in FieldRenders :
        LET value   == resolvePath(recipes[1].path, renders[n].data)
            out     == renders[n].contents
            absent  == IsNullish(value)
            node    == value.k = "node"
            wrapped == value.k = "jquery"
            other   == ~absent /\ ~node /\ ~wrapped
            cases   == <<absent, node, wrapped, other>>
        IN  /\ Cardinality({c \in DOMAIN cases : cases[c]}) = 1
            /\ absent  => out = <<>> /\ CreatedBy(n) = {}
            /\ node    => out = <<value.id>> /\ CreatedBy(n) = {}
            /\ wrapped => out = value.ids /\ CreatedBy(n) = {}
            /\ other   => /\ Len(out) = 1
                          /\ CreatedBy(n) = {out[1]}
                          /\ dom[out[1]].nodeType = "text"
                          /\ dom[out[1]].text = toString(value)

C11_Witness ==
    \E n \in FieldRenders :
        /\ recipes[1].path = <<"x">>
        /\ renders[n].data = Obj([x |-> JQuery(<<1, 2>>), y |-> Str(<<"o">>)])
        /\ renders[n].contents = <<1, 2>>
        /\ dom[1].parentNode = renders[n].target

\* The renderInto calls of Node recipes made by render n
NodeCalls(n) ==
    {i \in DOMAIN renders[n].calls : renders[n].calls[i].recipe.kind = "Node"}

Targets == {renders[n].target : n \in DOMAIN renders}

\* The elements made for Node recipes: every element but those of the
\* caller and the targets of the renders
LiteralElements ==
    {id \in DOMAIN dom : /\ dom[id].nodeType = "element"
                         /\ id > Len(ContextNodes)
                         /\ id \notin Targets}

\* The places a node holds in the child lists of the document
PlacesOf(id) ==
    {<<p, m>> \in (DOMAIN dom) \X (DOMAIN dom) :
        m \in DOMAIN dom[p].childNodes /\ dom[p].childNodes[m] = id}

\* C12: every renderInto call of a Node recipe makes an element of its own,
\* in one render, over the items of an each and over several renders of one
\* template: there are as many such elements as calls, and each of them is
\* the child of one node, once.
C12_FreshElements ==
    /\ \A n \in DOMAIN renders :
          Cardinality(CreatedBy(n) \cap LiteralElements) = Cardinality(NodeCalls(n))
    /\ \A id \in LiteralElements :
          /\ Cardinality(PlacesOf(id)) = 1
          /\ \E place \in PlacesOf(id) : dom[id].parentNode = place[1]

C12_Witness ==
    /\ Len(renders) = 2
    /\ \A n \in DOMAIN renders :
          /\ renders[n].data = Obj([x |-> Arr(<<ItemTrue, ItemFalse>>), y |-> Str(<<"o">>)])
          /\ Cardinality(NodeCalls(n)) = 3
    /\ Cardinality(LiteralElements) = 6

\* The recipes and contexts of the renderInto calls of a render, in order
CallsMade(n) ==
    [i \in DOMAIN renders[n].calls |->
        [recipe |-> renders[n].calls[i].recipe, data |-> renders[n].calls[i].data,
         depth |-> renders[n].calls[i].depth]]

\* Renders of one template against one context make the same calls and
\* return the same text, whatever was rendered before
C16_SameOutput ==
    \A n, m \in DOMAIN renders :
        renders[n].data = renders[m].data =>
            /\ CallsMade(n) = CallsMade(m)
            /\ renders[n].text = renders[m].text
            /\ Len(renders[n].contents) = Len(renders[m].contents)

\* The recipes are set when the constructor returns and by no other step
C16_RecipesKept ==
    recipes' # recipes => status = "parsing" /\ status' = "compiled"

\* C16: no render changes the recipe tree of the template: the recipes are
\* those the constructor stored after any number of renders, and renders
\* against one context make the same calls and return the same text.
C16_RecipesUnchanged == []C16_SameOutput /\ [][C16_RecipesKept]_vars

C16_Witness ==
    /\ Len(renders) = 2
    /\ renders[1].data = renders[2].data
    /\ renders[1].target # renders[2].target
    /\ \E r \in RecipesIn(recipes) : r.kind = "Block" /\ r.defaultBranch # <<>>
    /\ Len(renders[2].calls) > 3

-----------------------------------------------------------------------------
(* Properties of the attribute substitution                                 *)

\* A raw attribute value with every {{path}} span replaced, left to right, by
\* the string conversion of the value of the path, or by nothing when that
\* value is null or undefined
RECURSIVE EverySpanReplaced(_, _)
EverySpanReplaced(chars, data) ==
    LET starts == {i \in 1..Len(chars) : \E j \in 1..Len(chars) : MatchesAt(chars, i, j)}
    IN  IF starts = {} THEN chars
        ELSE LET i == Least(starts)
                 j == Least({n \in 1..Len(chars) : MatchesAt(chars, i, n)})
                 value == resolvePath(SplitDots(SubSeq(chars, i + 2, j - 1), <<>>), data)
             IN  SubSeq(chars, 1, i - 1)
                 \o (IF IsNullish(value) THEN <<>> ELSE toStringChars(value))
                 \o EverySpanReplaced(SubSeq(chars, j + 2, Len(chars)), data)

\* The elements made by the renderInto calls of Node recipes with attributes:
\* the children of the target of a template that is one such Node recipe
AttributeRenders ==
    IF /\ status = "compiled" /\ Len(recipes) = 1
       /\ recipes[1].kind = "Node" /\ recipes[1].attributes # <<>>
    THEN {n \in DOMAIN renders : renders[n].err = "none"} ELSE {}

\* C13: every attribute of an element made by a Node recipe holds the raw
\* value of the recipe with every {{path}} span replaced, however many the
\* raw value contains, and the text outside the spans as it was.
C13_EveryPlaceholderReplaced ==
    \A n \in AttributeRenders :
        LET element == dom[renders[n].contents[1]]
            raw     == recipes[1].attributes
        IN  /\ Len(element.attributes) = Len(raw)
            /\ \A a \in DOMAIN raw :
                  /\ element.attributes[a].name = raw[a].name
                  /\ element.attributes[a].value =
                         EverySpanReplaced(raw[a].value, renders[n].data)

-----------------------------------------------------------------------------
(* Properties of the end of a block and of optimizeRecipes                  *)

\* The compile errors: unknown helper, unexpected block end, unterminated
\* block, invalid token
CompileErrors ==
    {"UnknownHelperError", "UnexpectedBlockEndError", "UnterminatedBlockError",
     "InvalidTokenError"}

\* C17: a BlockEnd read while no block is open makes the compilation fail with
\* one of the compile errors; it is not skipped and fails in no other way.
C17_EndWithoutBlock ==
    [][(Handling("BlockEnd") /\ Top.blockState = <<>>) =>
           (status' = "failed" /\ error' \in CompileErrors)]_vars

\* A recipe list as its recipes that are not Text recipes, in order, and the
\* text before, between and after them
RECURSIVE TextRuns(_, _, _)
TextRuns(list, i, run) ==
    IF i > Len(list) THEN <<[kind |-> "Run", text |-> run]>>
    ELSE IF list[i].kind = "Text" THEN TextRuns(list, i + 1, run \o list[i].text)
    ELSE <<[kind |-> "Run", text |-> run], list[i]>> \o TextRuns(list, i + 1, "")

\* C20: the recipes the constructor stores are the recipes parseToEnd returned
\* with adjacent Text recipes combined: the same other recipes in the same
\* order with the same text before, between and after them, and they render
\* the same text against every context.
C20_SquashKeepsText ==
    (status = "compiled" /\ renders = <<>>) =>
        /\ TextRuns(recipes, 1, "") = TextRuns(parseToEndResult(Top), 1, "")
        /\ \A data \in Contexts :
              RenderedText(recipes, data) = RenderedText(parseToEndResult(Top), data)

-----------------------------------------------------------------------------
(* Properties of the tokenizer and of the constructor on a template string  *)

\* The text of the text node of the source, and the tokens made of it
SourceChars ==
    IF source.nodes[1].nodeType = "text" THEN source.nodes[1].textContent
    ELSE source.nodes[1].childNodes[1].textContent

TextTokens ==
    IF source.nodes[1].nodeType = "text" THEN tokens ELSE tokens[1].childTokens

Tokenized == source.state # "none" /\ status # "tokenizing"

\* The placeholders of a text, left to right: what stands between {{ and }},
\* and the literal run before it (run is the run read so far)
RECURSIVE SpansOf(_, _)
SpansOf(chars, run) ==
    IF chars = <<>> THEN <<>>
    ELSE IF \E j \in 1..Len(chars) : MatchesAt(chars, 1, j)
         THEN LET j == Least({n \in 1..Len(chars) : MatchesAt(chars, 1, n)}) IN
              <<[before |-> run, inner |-> SubSeq(chars, 3, j - 1)]>>
              \o SpansOf(SubSeq(chars, j + 2, Len(chars)), <<>>)
         ELSE SpansOf(Tail(chars), Append(run, chars[1]))

\* The text after the last placeholder
RECURSIVE RestOf(_, _)
RestOf(chars, run) ==
    IF chars = <<>> THEN run
    ELSE IF \E j \in 1..Len(chars) : MatchesAt(chars, 1, j)
         THEN LET j == Least({n \in 1..Len(chars) : MatchesAt(chars, 1, n)}) IN
              RestOf(SubSeq(chars, j + 2, Len(chars)), <<>>)
         ELSE RestOf(Tail(chars), Append(run, chars[1]))

\* C18: the tokens of a text are, for every placeholder in order, a Text token
\* holding the literal run before it and then the token of the placeholder,
\* and at the end a Text token holding the text after the last placeholder,
\* the empty string included.
C18_TextBeforeAndAfter ==
    Tokenized =>
        LET toks  == TextTokens
            spans == SpansOf(SourceChars, <<>>)
        IN  /\ Len(toks) = 2 * Len(spans) + 1
            /\ \A m \in DOMAIN spans :
                  /\ toks[2 * m - 1] = TextToken(JoinChars(spans[m].before))
                  /\ toks[2 * m].type # "Text"
            /\ toks[Len(toks)] = TextToken(JoinChars(RestOf(SourceChars, <<>>)))

Whitespace == {" ", "\t", "\n"}

\* The characters up to the first whitespace, and those after it
RECURSIVE FirstWord(_)
FirstWord(chars) ==
    IF chars = <<>> \/ chars[1] \in Whitespace THEN <<>>
    ELSE <<chars[1]>> \o FirstWord(Tail(chars))

Remainder(chars) == SubSeq(chars, Len(FirstWord(chars)) + 2, Len(chars))

\* The token of a placeholder, by its first character
TokenOf(inner) ==
    CASE inner[1] = "#" ->
            BlockStartToken(JoinChars(FirstWord(Tail(inner))),
                            SplitDots(Remainder(Tail(inner)), <<>>))
      [] inner[1] = "/" -> BlockEndToken(JoinChars(Tail(inner)))
      [] OTHER -> FieldToken(SplitDots(inner, <<>>))

\* C19: the token of a placeholder is a BlockStart when it begins with #, its
\* name the first word after # and its path the whole remainder split on
\* dots; a BlockEnd named by what follows / when it begins with /; and
\* otherwise a Field whose path is the placeholder split on dots.
C19_KindByFirstCharacter ==
    Tokenized =>
        LET made  == SelectSeq(TextTokens, LAMBDA t : t.type # "Text")
            spans == SpansOf(SourceChars, <<>>)
        IN  /\ Len(made) = Len(spans)
            /\ \A m \in DOMAIN spans : made[m] = TokenOf(spans[m].inner)

\* The block markers of the placeholders from m on are balanced: every #name
\* is closed by a /name of the same name, innermost first (open holds the
\* names of the open blocks)
RECURSIVE Balanced(_, _, _)
Balanced(spans, m, open) ==
    IF m > Len(spans) THEN open = <<>>
    ELSE LET inner == spans[m].inner IN
         CASE inner[1] = "#" ->
                 Balanced(spans, m + 1, Append(open, FirstWord(Tail(inner))))
           [] inner[1] = "/" ->
                 /\ open # <<>>
                 /\ open[Len(open)] = Tail(inner)
                 /\ Balanced(spans, m + 1, SubSeq(open, 1, Len(open) - 1))
           [] OTHER -> Balanced(spans, m + 1, open)

\* The number of characters of a text outside its placeholders
RECURSIVE LiteralLength(_, _)
LiteralLength(spans, m) ==
    IF m > Len(spans) THEN 0
    ELSE Len(spans[m].before) + LiteralLength(spans, m + 1)

\* The number of characters of the Text recipes of a recipe list, at any depth
RECURSIVE TextLength(_)
TextLength(list) ==
    IF list = <<>> THEN 0
    ELSE (CASE list[1].kind = "Text"  -> Len(list[1].text)
            [] list[1].kind = "Node"  -> TextLength(list[1].childRecipes)
            [] list[1].kind = "Block" -> TextLength(list[1].defaultBranch)
                                         + TextLength(list[1].elseBranch)
            [] OTHER -> 0)
         + TextLength(Tail(list))

\* C14: a template whose block markers are balanced compiles, and its Text
\* recipes hold as many characters as the template has outside placeholders.
C14_TextLengthKept ==
    (Tokenized /\ Balanced(SpansOf(SourceChars, <<>>), 1, <<>>)) =>
        /\ status # "failed"
        /\ status = "compiled" =>
              TextLength(recipes) = LiteralLength(SpansOf(SourceChars, <<>>), 1)
                                    + Len(RestOf(SourceChars, <<>>))

-----------------------------------------------------------------------------
(* Properties of the helper registry                                        *)

\* The first word of a name that is looked up
WordOf(name) == JoinChars(FirstWord(name))

\* The helper of the most recent registration under the word, or missing when
\* there is none
LatestOf(log, word, missing) ==
    LET made == {i \in DOMAIN log : log[i].name = word} IN
    IF made = {} THEN missing
    ELSE log[CHOOSE i \in made : \A m \in made : m <= i].helper

\* Every lookup gives the helper registered last under the name
C15_Latest ==
    status = "registry" =>
        /\ \A name \in LookupNames :
              /\ findHelper(helperEntries, name) =
                     LatestOf(regCall.log, WordOf(name), "null")
              /\ Lookup(helpers, WordOf(name)) =
                     LatestOf(regCall.log, WordOf(name), "undefined")
        /\ regCall.state = "found" =>
              regCall.helper = LatestOf(regCall.log, WordOf(regCall.name), "null")

\* A registration leaves the lookups of every other name as they were
C15_OthersKept ==
    (status = "registry" /\ helperEntries' # helperEntries) =>
        \A name \in LookupNames :
            (regCall'.state = "registered" /\ WordOf(name) # regCall'.name) =>
                /\ findHelper(helperEntries', name) = findHelper(helperEntries, name)
                /\ Lookup(helpers', WordOf(name)) = Lookup(helpers, WordOf(name))

-----------------------------------------------------------------------------
(* Properties of the recipe tree while it is built                          *)

\* ps after the step holds one recipe more, the last of the active branch of
\* its innermost open block, or of its recipe list when no block is open
AppendedToActive(before, after, recipe) ==
    LET n == Len(before.blockState) IN
    IF n = 0
    THEN after.recipes = Append(before.recipes, recipe) /\ after.blockState = <<>>
    ELSE /\ after.recipes = before.recipes
         /\ Len(after.blockState) = n
         /\ \A i \in 1..(n - 1) : after.blockState[i] = before.blockState[i]
         /\ after.blockState[n] =
                IF before.blockState[n].currentBranch = "default"
                THEN [before.blockState[n] EXCEPT !.defaultBranch = Append(@, recipe)]
                ELSE [before.blockState[n] EXCEPT !.elseBranch = Append(@, recipe)]

\* The step that handles a Text token, or a Field token that is no else of
\* an open block
C21_LeafStep ==
    /\ Handling("Text") =>
          /\ Len(stack') = Len(stack)
          /\ AppendedToActive(Top, TopAfter, [kind |-> "Text", text |-> PeekToken(Top).text])
    /\ (Handling("Field") /\ ~(IsElseToken(PeekToken(Top)) /\ Top.blockState # <<>>)) =>
          /\ Len(stack') = Len(stack)
          /\ AppendedToActive(Top, TopAfter, [kind |-> "Field", path |-> PeekToken(Top).path])

\* The step that ends the handling of a Node token: its child sequence is read
C21_NodeStep ==
    (status = "parsing" /\ Len(stack) > 1 /\ atEndOfStream(Top)) =>
        LET caller == stack[Len(stack) - 1]
            token  == caller.tokens[caller.index]
        IN  /\ Len(stack') = Len(stack) - 1
            /\ token.type = "Node"
            /\ AppendedToActive(caller, TopAfter,
                                [kind |-> "Node", nodeName |-> token.nodeName,
                                 attributes |-> token.attributes,
                                 childRecipes |-> Top.recipes])

\* The step that closes the innermost open block
C21_CloseStep ==
    (/\ Handling("BlockEnd") /\ Top.blockState # <<>>
     /\ Top.blockState[Len(Top.blockState)].name = PeekToken(Top).name) =>
        LET n == Len(Top.blockState) IN
        AppendedToActive([Top EXCEPT !.blockState = SubSeq(@, 1, n - 1)], TopAfter,
                         Top.blockState[n])

\* BlockStarts minus BlockEnds among the first i tokens
DepthAt(toks, i) ==
    Cardinality({j \in 1..i : toks[j].type = "BlockStart"})
    - Cardinality({j \in 1..i : toks[j].type = "BlockEnd"})

\* The BlockStarts of a sequence that no BlockEnd of the sequence closes
LeftOpen(toks) ==
    {i \in 1..Len(toks) :
        /\ toks[i].type = "BlockStart"
        /\ \A j \in i..Len(toks) : DepthAt(toks, j) >= DepthAt(toks, i)}

\* The tokens whose recipes the parse of a sequence returns: those before the
\* first block that is left open
Kept(toks) == IF LeftOpen(toks) = {} THEN Len(toks) ELSE Least(LeftOpen(toks)) - 1

\* A recipe without the recipes below it
HeadOf(recipe) ==
    CASE recipe.kind = "Node" ->
            [kind |-> "Node", nodeName |-> recipe.nodeName,
             attributes |-> recipe.attributes]
      [] recipe.kind = "Block" ->
            [kind |-> "Block", name |-> recipe.name, path |-> recipe.path]
      [] OTHER -> recipe

\* The in-order walk of a recipe list: a recipe, then the recipes below it
RECURSIVE Walk(_)
Walk(list) ==
    IF list = <<>> THEN <<>>
    ELSE <<HeadOf(list[1])>>
         \o (CASE list[1].kind = "Node"  -> Walk(list[1].childRecipes)
               [] list[1].kind = "Block" -> Walk(list[1].defaultBranch)
                                            \o Walk(list[1].elseBranch)
               [] OTHER -> <<>>)
         \o Walk(Tail(list))

\* The walk of the tree a parse has built so far: its recipe list, then its
\* open blocks from the outermost in
RECURSIVE WalkOpen(_, _)
WalkOpen(blocks, i) ==
    IF i > Len(blocks) THEN <<>>
    ELSE <<HeadOf(blocks[i])>> \o Walk(blocks[i].defaultBranch)
         \o Walk(blocks[i].elseBranch) \o WalkOpen(blocks, i + 1)

WalkOf(ps) == Walk(ps.recipes) \o WalkOpen(ps.blockState, 1)

\* The recipes of the tokens i..n of a sequence, in token order; depth is the
\* number of blocks open before token i
RECURSIVE InTokenOrder(_, _, _, _)
InTokenOrder(toks, i, n, depth) ==
    IF i > n THEN <<>>
    ELSE LET t == toks[i] IN
         CASE t.type = "Text" ->
                 <<[kind |-> "Text", text |-> t.text]>>
                 \o InTokenOrder(toks, i + 1, n, depth)
           [] t.type = "Field" ->
                 (IF IsElseToken(t) /\ depth > 0 THEN <<>>
                  ELSE <<[kind |-> "Field", path |-> t.path]>>)
                 \o InTokenOrder(toks, i + 1, n, depth)
           [] t.type = "Node" ->
                 <<[kind |-> "Node", nodeName |-> t.nodeName,
                    attributes |-> t.attributes]>>
                 \o InTokenOrder(t.childTokens, 1, Kept(t.childTokens), 0)
                 \o InTokenOrder(toks, i + 1, n, depth)
           [] t.type = "BlockStart" ->
                 <<[kind |-> "Block", name |-> t.name, path |-> t.path]>>
                 \o InTokenOrder(toks, i + 1, n, depth + 1)
           [] t.type = "BlockEnd" -> InTokenOrder(toks, i + 1, n, depth - 1)

\* The tokens a parse has handled: those it has read, but for the Node token
\* whose child sequence is still being parsed
Handled(k) == IF k < Len(stack) THEN stack[k].index - 1 ELSE stack[k].index

\* Every running parse: its open blocks and the walk of its tree
C21_DepthAndOrder ==
    status = "parsing" =>
        \A k \in DOMAIN stack :
            /\ Len(stack[k].blockState) = DepthAt(stack[k].tokens, stack[k].index)
            /\ WalkOf(stack[k]) = InTokenOrder(stack[k].tokens, 1, Handled(k), 0)

\* C21: while parsing, each Text token, each Field token that is no else of an
\* open block and each Node token yields exactly one recipe, appended to the
\* active branch of the innermost open block or to the recipe list when no
\* block is open, and a closed block is appended to the active branch of the
\* block then on top of the stack or to the recipe list; the number of open
\* blocks is the BlockStarts minus the BlockEnds read so far, and the in-order
\* walk of the recipe tree visits the recipes in token order.
C21_OneRecipePerToken ==
    []C21_DepthAndOrder /\ [][C21_LeafStep /\ C21_NodeStep /\ C21_CloseStep]_vars

C21_Witness ==
    /\ status = "parsing"
    /\ tokens = EachIfTemplate
    /\ Top.index = 9
    /\ Len(Top.blockState) = 1
    /\ Len(Top.blockState[1].defaultBranch) = 3
    /\ Top.blockState[1].defaultBranch[2].kind = "Block"
    /\ Top.blockState[1].defaultBranch[2].elseBranch = <<TextRecipe("B")>>

-----------------------------------------------------------------------------
(* Properties of else                                                       *)

\* The active branches of the open blocks of every running parse
ActiveBranches(st) ==
    [k \in DOMAIN st |->
        [i \in DOMAIN st[k].blockState |-> st[k].blockState[i].currentBranch]]

\* The step that handles an else where the sequence being read has no open
\* block: at the top level, or in the child sequence of an element
C22_ElseStep ==
    (Handling("Field") /\ IsElseToken(PeekToken(Top)) /\ Top.blockState = <<>>) =>
        /\ Len(stack') = Len(stack)
        /\ \A k \in 1..(Len(stack) - 1) : stack'[k] = stack[k]
        /\ ActiveBranches(stack') = ActiveBranches(stack)
        /\ TopAfter.blockState = <<>>
        /\ TopAfter.recipes = Append(Top.recipes, [kind |-> "Field", path |-> <<"else">>])

\* A step that changes the active branch of a block open before and after it
\* handles an else in the sequence that block was opened in
C22_SwitchStep ==
    \A k \in DOMAIN stack :
        (/\ k \in DOMAIN stack'
         /\ \E i \in DOMAIN stack[k].blockState :
                /\ i \in DOMAIN stack'[k].blockState
                /\ stack'[k].blockState[i].currentBranch
                       # stack[k].blockState[i].currentBranch) =>
            /\ k = Len(stack)
            /\ Handling("Field") /\ IsElseToken(PeekToken(Top))

\* {{#if x}}<p>{{else}}A</p>B{{/if}}
ElseInChild ==
    <<BlockStartToken("if", <<"x">>),
      NodeToken("P", <<>>, <<FieldToken(<<"else">>), TextToken("A")>>),
      TextToken("B"), BlockEndToken("if")>>

\* What that template compiles to: the element and B in the default branch
C22_Compiled ==
    (tokens = ElseInChild /\ status = "compiled") =>
        recipes =
            <<[kind |-> "Block", name |-> "if", path |-> <<"x">>, helper |-> "if",
               currentBranch |-> "default", elseBranch |-> <<>>,
               defaultBranch |->
                   <<[kind |-> "Node", nodeName |-> "P", attributes |-> <<>>,
                      childRecipes |-> <<[kind |-> "Field", path |-> <<"else">>],
                                         [kind |-> "Text", text |-> "A"]>>],
                     [kind |-> "Text", text |-> "B"]>>]>>

\* C22: an else read where the sequence being read has no open block (in the
\* child sequence of an element, inside a block or not, or outside every
\* block) changes the active branch of no block and is made into a Field
\* recipe of path [else]; the active branch of a block changes only at an
\* else read in the sequence the block was opened in.
C22_ElseOnlyInOwnSequence ==
    []C22_Compiled /\ [][C22_ElseStep /\ C22_SwitchStep]_vars

C22_Witness ==
    /\ tokens = ElseInChild
    /\ status = "compiled"
    /\ recipes[1].currentBranch = "default"
    /\ recipes[1].defaultBranch[1].childRecipes[1] = FieldRecipe(FieldToken(<<"else">>))

-----------------------------------------------------------------------------
(* Properties of the two branches of a block                                *)

\* The BlockStarts among the first n tokens that are still open after them,
\* in order: the i-th is the token of the i-th open block
OpenStarts(toks, n) ==
    SelectSeq([p \in 1..n |-> p],
              LAMBDA p : /\ toks[p].type = "BlockStart"
                         /\ \A j \in p..n : DepthAt(toks, j) >= DepthAt(toks, p))

\* The elses among the first n tokens that stand in the block opened at p, at
\* the depth of that block
OwnElses(toks, p, n) ==
    {q \in (p + 1)..n : IsElseToken(toks[q]) /\ DepthAt(toks, q) = DepthAt(toks, p)}

\* The tokens of the block opened at p that are read at its own depth before
\* position q and are made into recipes of the block
OwnBefore(toks, p, q) ==
    {j \in (p + 1)..(q - 1) :
        \/ toks[j].type \in {"Text", "Node"} /\ DepthAt(toks, j) = DepthAt(toks, p)
        \/ toks[j].type = "BlockEnd" /\ DepthAt(toks, j) = DepthAt(toks, p)
        \/ /\ toks[j].type = "Field" /\ ~IsElseToken(toks[j])
           /\ DepthAt(toks, j) = DepthAt(toks, p)}

\* Every open block of every running parse: its active branch is the default
\* branch up to its first else and the else branch from then on, the default
\* branch holds the recipes made before that else and no other, and the else
\* branch is empty while no else was read
C23_Branches ==
    status = "parsing" =>
        \A k \in DOMAIN stack :
            LET toks   == stack[k].tokens
                n      == Handled(k)
                starts == OpenStarts(toks, stack[k].index)
            IN  \A i \in DOMAIN stack[k].blockState :
                    LET block == stack[k].blockState[i]
                        elses == OwnElses(toks, starts[i], n)
                    IN  /\ block.currentBranch = IF elses = {} THEN "default" ELSE "else"
                        /\ elses = {} => block.elseBranch = <<>>
                        /\ elses # {} =>
                              Len(block.defaultBranch) =
                                  Cardinality(OwnBefore(toks, starts[i], Least(elses)))

\* A step leaves a block whose active branch is the else branch with that
\* active branch and with its default branch as it is
C23_NoWayBack ==
    \A k \in DOMAIN stack : \A i \in DOMAIN stack[k].blockState :
        (/\ stack[k].blockState[i].currentBranch = "else"
         /\ k \in DOMAIN stack' /\ i \in DOMAIN stack'[k].blockState) =>
            /\ stack'[k].blockState[i].currentBranch = "else"
            /\ stack'[k].blockState[i].defaultBranch = stack[k].blockState[i].defaultBranch

\* A block starts with two empty branches, the default branch active
C23_StartStep ==
    (Handling("BlockStart") /\ status' = "parsing") =>
        LET block == TopAfter.blockState[Len(TopAfter.blockState)] IN
        /\ Len(TopAfter.blockState) = Len(Top.blockState) + 1
        /\ block.currentBranch = "default"
        /\ block.defaultBranch = <<>> /\ block.elseBranch = <<>>

\* C23: the active branch of a block is its default branch from its start to
\* the first else read at its own depth and its else branch from then on,
\* whatever follows, a second else included; no recipe is appended to the
\* default branch after that else, and the else branch is empty while the
\* block has no else.
C23_OneElseHonored ==
    []C23_Branches /\ [][C23_NoWayBack /\ C23_StartStep]_vars

C23_Witness ==
    /\ status = "parsing"
    /\ tokens = DoubleElseTemplate
    /\ Top.index = 6
    /\ Top.blockState[1].currentBranch = "else"
    /\ Top.blockState[1].defaultBranch = <<TextRecipe("A")>>
    /\ Top.blockState[1].elseBranch = <<TextRecipe("B"), TextRecipe("C")>>

-----------------------------------------------------------------------------
(* Properties of the helper a Block recipe holds                            *)

\* The assignments made before the template was compiled
BeforeCompile == SelectSeq(regCall.log, LAMBDA e : ~e.compiled)

\* The helper registered under the name when the template was compiled
BoundAtCompile(name) ==
    LatestOf(BeforeCompile, name, Lookup(BuiltinHelpers, name))

\* The calls a helper makes for a call of a block
CallsOf(helper, call) ==
    LET value == Resolved(call) IN
    CASE helper = "if" ->
            BranchCalls(IF Truthy(value) THEN call.recipe.defaultBranch
                        ELSE call.recipe.elseBranch, call.target, call.data)
      [] helper = "with" ->
            IF Truthy(value)
            THEN BranchCalls(call.recipe.defaultBranch, call.target, value)
            ELSE BranchCalls(call.recipe.elseBranch, call.target, call.data)
      [] helper = "each" ->
            IF HasNonzeroLength(value)
            THEN LoopCalls(Elements(value), call.recipe.defaultBranch, call.target)
            ELSE BranchCalls(call.recipe.elseBranch, call.target, call.data)

BlockCalls(n) ==
    {i \in DOMAIN renders[n].calls : renders[n].calls[i].recipe.kind = "Block"}

\* C24: a Block recipe of a compiled template holds the helper that was
\* registered under its name when the template was compiled, an assignment
\* made before the compilation included, and every render, before or after
\* later assignments to that name, makes the calls of that helper.
C24_HelperBoundAtCompile ==
    (status = "compiled" /\ regCall.state # "none") =>
        /\ \A r \in RecipesIn(recipes) :
              r.kind = "Block" => r.helper = BoundAtCompile(r.name)
        /\ \A n \in DOMAIN renders :
              /\ renders[n].err = "none"
              /\ \A i \in BlockCalls(n) :
                    ChildCalls(renders[n].calls, i) =
                        CallsOf(BoundAtCompile(renders[n].calls[i].recipe.name),
                                renders[n].calls[i])

\* if is assigned the helper of with after the compilation and before the
\* render, and the render hands the outer context to the default branch
C24_Witness ==
    /\ status = "compiled"
    /\ tokens = ProbeTemplate("if", <<"x">>)
    /\ regCall.state = "assigned"
    /\ \E e \in DOMAIN regCall.log :
          regCall.log[e] = [name |-> "if", helper |-> "with", compiled |-> TRUE,
                            renders |-> 0]
    /\ helpers["if"] = "with"
    /\ Len(renders) = 1
    /\ renders[1].data = Obj([x |-> Obj([y |-> Str(<<"i">>)]), y |-> Str(<<"o">>)])
    /\ renders[1].text = "oA"

\* foo is assigned the helper of with before the compilation, and the
\* template of {{#foo x}} compiles and renders with it
C24_WitnessNew ==
    /\ status = "compiled"
    /\ tokens = ProbeTemplate("foo", <<"x">>)
    /\ BeforeCompile # <<>>
    /\ recipes[1].helper = "with"
    /\ Len(renders) = 1
    /\ renders[1].text = "iA"

-----------------------------------------------------------------------------
(* Properties of the nodes of the caller in the output                      *)

\* The nodes the caller supplies in the contexts
SuppliedNodes == DOMAIN ContextNodes

\* The value of a Field evaluation holds the node
Holds(value, id) ==
    \/ value.k = "node" /\ value.id = id
    \/ value.k = "jquery" /\ \E m \in DOMAIN value.ids : value.ids[m] = id

\* The Field evaluations that reached the node, as <<render, call>>
Evaluations(id) ==
    {e \in UNION {{<<n, i>> : i \in DOMAIN renders[n].calls} : n \in DOMAIN renders} :
        /\ renders[e[1]].calls[e[2]].recipe.kind = "Field"
        /\ Holds(resolvePath(renders[e[1]].calls[e[2]].recipe.path,
                             renders[e[1]].calls[e[2]].data), id)}

Later(e, f) == e[1] > f[1] \/ (e[1] = f[1] /\ e[2] >= f[2])

\* The node is an ancestor of itself within n steps up
RECURSIVE ReachesUp(_, _, _)
ReachesUp(from, id, n) ==
    /\ n > 0
    /\ dom[from].parentNode # 0
    /\ \/ dom[from].parentNode = id
       \/ ReachesUp(dom[from].parentNode, id, n - 1)

\* C25: a node of the caller that Field evaluations reached (in one render,
\* over the items of an each, in successive renders) is the child of the
\* target of the last of them and of no other node, once; a node no
\* evaluation reached has no parent; and every node of the document has at
\* most one parent, holds one place in its child list, and is no ancestor of
\* itself.
C25_NodeMoved ==
    /\ \A id \in SuppliedNodes :
          IF Evaluations(id) = {}
          THEN dom[id].parentNode = 0 /\ PlacesOf(id) = {}
          ELSE LET last == CHOOSE e \in Evaluations(id) :
                               \A f \in Evaluations(id) : Later(e, f)
                   target == renders[last[1]].calls[last[2]].target
               IN  /\ dom[id].parentNode = target
                   /\ \A place \in PlacesOf(id) : place[1] = target
    /\ \A id \in DOMAIN dom :
          /\ Cardinality(PlacesOf(id)) <= 1
          /\ dom[id].parentNode = 0 <=> PlacesOf(id) = {}
          /\ \A place \in PlacesOf(id) : dom[id].parentNode = place[1]
          /\ ~ReachesUp(id, id, Len(dom))

\* Two items of an each hold the same node: the element made for the first
\* item is left empty and the element made for the second holds the node
C25_Witness ==
    /\ Len(renders) = 1
    /\ renders[1].data = Obj([x |-> Arr(<<ItemNode, ItemNode>>), y |-> Str(<<"o">>)])
    /\ Len(renders[1].contents) = 1
    /\ LET made == dom[renders[1].contents[1]].childNodes IN
       /\ Len(made) = 2
       /\ dom[made[1]].nodeType = "element" /\ dom[made[1]].childNodes = <<>>
       /\ dom[made[2]].childNodes = <<1>>

\* The node is rendered by two successive renders: the first output has lost it
C25_WitnessRenders ==
    /\ Len(renders) = 2
    /\ renders[1].contents = <<1>> /\ renders[2].contents = <<1>>
    /\ dom[renders[1].target].childNodes = <<>>
    /\ dom[renders[2].target].childNodes = <<1>>

\* {{x}}<p>{{x}}</p> rendered with a node for x: the node is in the element
C25_WitnessTwice ==
    /\ tokens = FieldTwiceTemplate
    /\ Len(renders) = 1
    /\ renders[1].data = Obj([x |-> NodeVal(1), y |-> Str(<<"o">>)])
    /\ Len(dom[renders[1].target].childNodes) = 1
    /\ dom[dom[renders[1].target].childNodes[1]].childNodes = <<1>>

-----------------------------------------------------------------------------
(* Properties of termination                                                *)

\* The number of recipes of a recipe list, at any depth
RecipeCount(list) == Len(Walk(list))

\* The most Block recipes a recipe of the list lies in, itself included
RECURSIVE BlockDepth(_)
BlockDepth(list) ==
    IF list = <<>> THEN 0
    ELSE LET below ==
                 CASE list[1].kind = "Node"  -> BlockDepth(list[1].childRecipes)
                   [] list[1].kind = "Block" ->
                         LET d == BlockDepth(list[1].defaultBranch)
                             e == BlockDepth(list[1].elseBranch)
                         IN  1 + (IF d >= e THEN d ELSE e)
                   [] OTHER -> 0
             rest == BlockDepth(Tail(list))
         IN  IF below >= rest THEN below ELSE rest

\* The most recipes a recipe of the list lies in, itself included
RECURSIVE TreeDepth(_)
TreeDepth(list) ==
    IF list = <<>> THEN 0
    ELSE LET below ==
                 CASE list[1].kind = "Node"  -> 1 + TreeDepth(list[1].childRecipes)
                   [] list[1].kind = "Block" ->
                         LET d == TreeDepth(list[1].defaultBranch)
                             e == TreeDepth(list[1].elseBranch)
                         IN  1 + (IF d >= e THEN d ELSE e)
                   [] OTHER -> 1
             rest == TreeDepth(Tail(list))
         IN  IF below >= rest THEN below ELSE rest

RECURSIVE Power(_, _)
Power(b, e) == IF e = 0 THEN 1 ELSE b * Power(b, e - 1)

\* The length of the longest collection an each of render n looped over, or 1
Longest(n) ==
    LET lengths == {Len(Elements(Resolved(renders[n].calls[i]))) :
                       i \in HelperCalls(renders[n], "each")} \cup {1}
    IN  CHOOSE l \in lengths : \A m \in lengths : m <= l

\* The tokens of a sequence from position i on, those of child sequences included
RECURSIVE TokenCount(_, _)
TokenCount(toks, i) ==
    IF i > Len(toks) THEN 0
    ELSE 1 + (IF toks[i].type = "Node" THEN TokenCount(toks[i].childTokens, 1) ELSE 0)
         + TokenCount(toks, i + 1)

\* What the running parses have left to do: twice the tokens not yet read,
\* plus the parses that have yet to return
RECURSIVE Unread(_, _)
Unread(st, k) ==
    IF k > Len(st) THEN 0
    ELSE TokenCount(st[k].tokens, st[k].index + 1) + Unread(st, k + 1)

Measure(st) == 2 * Unread(st, 1) + Len(st)

\* Every render made at most as many renderInto calls as the template has
\* recipes, times the longest collection to the power of the block depth, and
\* none deeper than the recipe tree; a running parser can take a step
C26_Bounded ==
    /\ \A n \in DOMAIN renders :
          /\ renders[n].err = "none"
          /\ Len(renders[n].calls) <=
                 RecipeCount(recipes) * Power(Longest(n), BlockDepth(recipes))
          /\ \A i \in DOMAIN renders[n].calls :
                 renders[n].calls[i].depth <= TreeDepth(recipes)
    /\ status = "parsing" => ENABLED ParserNext
    /\ \A k \in DOMAIN stack : stack[k].index <= stack[k].length

\* A step of the parser reads the next token of the innermost parse and no
\* other, or ends a parse that has read all its tokens; it leaves less to do
C26_Progress ==
    status = "parsing" =>
        /\ status' # "parsing" \/ Measure(stack') < Measure(stack)
        /\ Running =>
              /\ stack'[Len(stack)].index = Top.index + 1
              /\ \A k \in 1..(Len(stack) - 1) : stack'[k] = stack[k]
              /\ Len(stack') > Len(stack) => TopAfter.index = 0
        /\ ~Running =>
              /\ Top.index = Top.length
              /\ \A k \in DOMAIN stack' : stack'[k].index = stack[k].index

\* The constructor ends: it returns or it throws
C26_ParserEnds == (status = "parsing") ~> (status \in {"compiled", "failed"})

\* C26: every render of a compiled template returns, for every context of
\* finite collections, those that contain themselves included, after a number
\* of renderInto calls bounded by the recipes of the template, its nesting
\* depth and the lengths of the collections; the parser reads each token
\* once, in order, and ends.
C26_Terminates == []C26_Bounded /\ [][C26_Progress]_vars /\ C26_ParserEnds

\* {{#each x}}{{#each this}}A{{/each}}{{/each}} over the array that holds itself
C26_Witness ==
    /\ tokens = NestedEachTemplate
    /\ status = "compiled"
    /\ Len(renders) = 1
    /\ renders[1].data = Obj([x |-> Ref(2), y |-> Str(<<"o">>)])
    /\ Len(renders[1].calls) = 5
    /\ renders[1].text = "AA"

-----------------------------------------------------------------------------
(* Properties of collectBlock                                               *)

IsStart(token) == isField(token) /\ token.field[1] = "#"

IsEnd(token) == isField(token) /\ token.field[1] = "/"

\* The blocks open after the first i tokens of the stream, the block of the
\* start marker the helper consumed included
OpenAfter(toks, i) ==
    1 + Cardinality({j \in 1..i : IsStart(toks[j])})
      - Cardinality({j \in 1..i : IsEnd(toks[j])})

\* The end markers that close the block of the consumed start marker
BalancingEnds(toks) ==
    {i \in DOMAIN toks : IsEnd(toks[i]) /\ OpenAfter(toks, i) = 0}

\* The else markers of that block itself, before position e
OwnElseMarks(toks, e) ==
    {i \in 1..(e - 1) : /\ isField(toks[i]) /\ toks[i].field = ElseField
                        /\ OpenAfter(toks, i) = 1}

\* The tokens a..b of the stream but those at the positions skip, in order
RECURSIVE Pick(_, _, _, _)
Pick(toks, a, b, skip) ==
    IF a > b THEN <<>>
    ELSE (IF a \in skip THEN <<>> ELSE <<toks[a]>>) \o Pick(toks, a + 1, b, skip)

\* What a call that has returned leaves, for a stream that holds the end
\* marker of the block
C27_Collected ==
    (collect.state = "returned" /\ BalancingEnds(collect.input) # {}) =>
        LET toks  == collect.input
            e     == Least(BalancingEnds(toks))
            elses == OwnElseMarks(toks, e)
        IN  /\ collect.tokens = SubSeq(toks, e + 1, Len(toks))
            /\ IF elses = {}
               THEN /\ collect.first = SubSeq(toks, 1, e - 1)
                    /\ collect.second = <<>>
               ELSE /\ collect.first = SubSeq(toks, 1, Least(elses) - 1)
                    /\ collect.second = Pick(toks, Least(elses) + 1, e - 1, elses)

\* An iteration takes the front token off the stream and no other
C27_ShiftStep ==
    (collect.state = "loop" /\ collect'.state # "returned") =>
        /\ collect.tokens # <<>>
        /\ collect'.tokens = Tail(collect.tokens)
        /\ collect'.input = collect.input

\* C27: collectBlock takes from the front of the stream exactly the tokens up
\* to and including the end marker that balances the consumed start marker
\* and leaves the later tokens in order; the tokens before the else of the
\* block itself are in first and those after it in second, the markers of
\* inner blocks (start, end and else) among them as they were and in order;
\* neither the balancing end marker nor an else of the block itself is in a
\* branch.
C27_CollectBlock == []C27_Collected /\ [][C27_ShiftStep]_vars

\* {{else}} {{#if x}} {{else}} {{/if}} {{/if}} collected: the inner block,
\* its else included, is the second branch
C27_Witness ==
    /\ collect.state = "returned"
    /\ collect.input =
           <<StreamField(ElseField), StreamField(<<"#", "i", "f", " ", "x">>),
             StreamField(ElseField), StreamField(<<"/", "i", "f">>),
             StreamField(<<"/", "i", "f">>)>>
    /\ collect.first = <<>>
    /\ collect.second = SubSeq(collect.input, 2, 4)
    /\ collect.tokens = <<>>

\* A {{#if x}} {{/if}} {{/if}} A collected: the token after the end marker
\* stays in the stream
C27_WitnessRest ==
    /\ collect.state = "returned"
    /\ collect.input =
           <<StreamText("A"), StreamField(<<"#", "i", "f", " ", "x">>),
             StreamField(<<"/", "i", "f">>), StreamField(<<"/", "i", "f">>),
             StreamText("A")>>
    /\ collect.first = SubSeq(collect.input, 1, 3)
    /\ collect.tokens = <<StreamText("A")>>

=============================================================================
